---- MODULE Spec2Model ----
(***************************************************************************)
(* The pipette tip lifecycle of the protocol engine: the pickUpTip command *)
(* (commands/pick_up_tip.py), the hardware tip handler                     *)
(* (execution/tip_handler.py) and the tip / fluid state they update.       *)
(* One pipette and one tip rack are modelled.  Every `await` of a handler  *)
(* is a step of its own, so that a failure or a cancellation can strike   *)
(* between two steps.                                                      *)
(***************************************************************************)
EXTENDS Integers, Sequences, FiniteSets, TLC

(***************************************************************************)
(* Bounds of the model.                                                    *)
(***************************************************************************)
RackWells == 2          \* wells of the tip rack, numbered 1..RackWells
NominalLength == 5      \* nominal tip length of the rack's definition
NominalDiameter == 2    \* nominal tip diameter of the rack's definition
NominalVolume == 1      \* nominal tip volume (capacity) of the rack's definition
CalibratedLength == 4   \* tip length of the calibration record, when one exists

(***************************************************************************)
(* Program constants.                                                      *)
(***************************************************************************)
supported_partial_nozzle_minimum == 4

Wells == 1..RackWells

(***************************************************************************)
(* Values.                                                                 *)
(***************************************************************************)
\* TipGeometry(length, diameter, volume); Python's None is the all-zero record
TipGeometry(length, diameter, volume) ==
    [length |-> length, diameter |-> diameter, volume |-> volume]

NoTipGeometry == TipGeometry(0, 0, 0)

\* column of a nozzle name, int(nozzle[1:])
NozzleColumn ==
    [A1 |-> 1, B1 |-> 1, D1 |-> 1, H1 |-> 1, D2 |-> 2, A3 |-> 3, H3 |-> 3,
     A12 |-> 12, H12 |-> 12]

\* a left-side test that takes every column but the last as the left side
Mutant_tip_on_left_side_96(back_left_nozzle) == NozzleColumn[back_left_nozzle] < 12

tip_on_left_side_96(back_left_nozzle) == NozzleColumn[back_left_nozzle] = 1

\* a right-side test that looks for column 1 as the left-side test does
Mutant_tip_on_side_96(front_right_nozzle) == NozzleColumn[front_right_nozzle] = 1

tip_on_right_side_96(front_right_nozzle) == NozzleColumn[front_right_nozzle] = 12

NozzleMap(configuration, tip_count, back_left, front_right) ==
    [configuration |-> configuration, tip_count |-> tip_count,
     back_left |-> back_left, front_right |-> front_right]

\* the pipettes (channel count and active nozzle map) a run may start with
Pipettes ==
    { [channels |-> 1,  nozzle_map |-> NozzleMap("FULL", 1, "A1", "A1")],
      [channels |-> 8,  nozzle_map |-> NozzleMap("FULL", 8, "A1", "H1")],
      [channels |-> 8,  nozzle_map |-> NozzleMap("SINGLE", 1, "H1", "H1")],
      [channels |-> 96, nozzle_map |-> NozzleMap("FULL", 96, "A1", "H12")],
      [channels |-> 96, nozzle_map |-> NozzleMap("COLUMN", 8, "A1", "H1")],
      [channels |-> 96, nozzle_map |-> NozzleMap("COLUMN", 8, "A12", "H12")],
      [channels |-> 96, nozzle_map |-> NozzleMap("SINGLE", 1, "A1", "A1")] }


(***************************************************************************)
(* update_types.StateUpdate: a sparse set of field changes.  A field that  *)
(* is not changed (NO_CHANGE) has changed = FALSE / type = "NO_CHANGE".    *)
(***************************************************************************)
StateUpdate ==
    [pipette_location      |-> [changed |-> FALSE, well |-> 0],
     pipette_tip_state     |-> [changed |-> FALSE, tip_geometry |-> NoTipGeometry],
     pipette_aspirated_fluid |-> [type |-> "NO_CHANGE", volume |-> 0, clean_tip |-> FALSE],
     tips_used             |-> [changed |-> FALSE, well_names |-> {}],
     ready_to_aspirate     |-> [changed |-> FALSE, value |-> FALSE]]

\* StateUpdate.reduce(a, b): the fields b changes override those of a
reduce(a, b) ==
    [pipette_location |->
        IF b.pipette_location.changed THEN b.pipette_location ELSE a.pipette_location,
     pipette_tip_state |->
        IF b.pipette_tip_state.changed THEN b.pipette_tip_state ELSE a.pipette_tip_state,
     pipette_aspirated_fluid |->
        IF b.pipette_aspirated_fluid.type # "NO_CHANGE"
        THEN b.pipette_aspirated_fluid ELSE a.pipette_aspirated_fluid,
     tips_used |->
        IF b.tips_used.changed THEN b.tips_used ELSE a.tips_used,
     ready_to_aspirate |->
        IF b.ready_to_aspirate.changed THEN b.ready_to_aspirate ELSE a.ready_to_aspirate]

set_pipette_location(su, well) ==
    [su EXCEPT !.pipette_location = [changed |-> TRUE, well |-> well]]

clear_all_pipette_locations(su) ==
    [su EXCEPT !.pipette_location = [changed |-> TRUE, well |-> 0]]

update_pipette_tip_state(su, tip_geometry) ==
    [su EXCEPT !.pipette_tip_state = [changed |-> TRUE, tip_geometry |-> tip_geometry]]

set_fluid_empty(su, clean_tip) ==
    [su EXCEPT !.pipette_aspirated_fluid =
        [type |-> "empty", volume |-> 0, clean_tip |-> clean_tip]]

set_fluid_unknown(su) ==
    [su EXCEPT !.pipette_aspirated_fluid =
        [type |-> "unknown", volume |-> 0, clean_tip |-> FALSE]]

set_fluid_aspirated(su, volume) ==
    [su EXCEPT !.pipette_aspirated_fluid =
        [type |-> "aspirated", volume |-> volume, clean_tip |-> FALSE]]

mark_tips_as_used(su, well_names) ==
    [su EXCEPT !.tips_used = [changed |-> TRUE, well_names |-> well_names]]

set_pipette_ready_to_aspirate(su, ready_to_aspirate) ==
    [su EXCEPT !.ready_to_aspirate = [changed |-> TRUE, value |-> ready_to_aspirate]]

(***************************************************************************)
(* The tip / fluid state tracker of the one pipette, and the used wells of *)
(* the tip rack.  current_volume is 0 when the fluid state is unknown or   *)
(* there is no tip; volume_known tells the unknown state from an empty tip.*)
(***************************************************************************)
InitialTracker ==
    [has_tip |-> FALSE, tip_geometry |-> NoTipGeometry, current_volume |-> 0,
     volume_known |-> FALSE, ready_to_aspirate |-> FALSE, tips_used |-> {}]

\* applying a state update delta to the tracker, all fields at once
Apply(t, su) ==
    [has_tip |->
        IF su.pipette_tip_state.changed
        THEN su.pipette_tip_state.tip_geometry # NoTipGeometry ELSE t.has_tip,
     tip_geometry |->
        IF su.pipette_tip_state.changed
        THEN su.pipette_tip_state.tip_geometry ELSE t.tip_geometry,
     current_volume |->
        CASE su.pipette_aspirated_fluid.type = "empty" -> 0
          [] su.pipette_aspirated_fluid.type = "unknown" -> 0
          [] su.pipette_aspirated_fluid.type = "aspirated" ->
                t.current_volume + su.pipette_aspirated_fluid.volume
          [] OTHER -> t.current_volume,
     volume_known |->
        CASE su.pipette_aspirated_fluid.type = "empty" -> TRUE
          [] su.pipette_aspirated_fluid.type = "unknown" -> FALSE
          [] OTHER -> t.volume_known,
     ready_to_aspirate |->
        IF su.ready_to_aspirate.changed THEN su.ready_to_aspirate.value
        ELSE t.ready_to_aspirate,
     tips_used |->
        IF su.tips_used.changed THEN t.tips_used \cup su.tips_used.well_names
        ELSE t.tips_used]

\* TipView.compute_tips_to_mark_as_used: the wells of the rack under the
\* active nozzles when the primary nozzle is at well_name
compute_tips_to_mark_as_used(well_name, nozzle_map) ==
    {w \in Wells : well_name <= w /\ w < well_name + nozzle_map.tip_count}


(***************************************************************************)
(* State.                                                                  *)
(***************************************************************************)
VARIABLES
    tracker,    \* the engine's tip / fluid state of the pipette (see Apply)
    hw,         \* the hardware API's tip cache of the pipette's mount
    pipette,    \* channels and active nozzle map of the pipette
    robot,      \* "OT-3 Standard" (tip presence sensors) or "OT-2 Standard"
    pc,         \* position of the running command, "idle" between commands
    cmd,        \* parameters and locals of the running command
    steps,      \* the steps the running command has performed, in order
    result,     \* what the last command returned or raised
    pre         \* tracker and hardware cache when the running command began

vars == <<tracker, hw, pipette, robot, pc, cmd, steps, result, pre>>

InitialHw == [tip_length |-> 0, tiprack_diameter |-> 0, working_volume |-> 0]

NoCommand ==
    [command |-> "none", well_name |-> 0, tips_to_mark_as_used |-> {},
     move_state_update |-> StateUpdate, tip_geometry |-> NoTipGeometry,
     do_not_ignore_tip_presence |-> FALSE, sensed |-> "none"]

NoResult ==
    [kind |-> "none", error |-> "none", public |-> NoTipGeometry,
     state_update |-> StateUpdate, state_update_if_false_positive |-> StateUpdate]

\* SuccessData(public, state_update)
SuccessData(public, state_update) ==
    [kind |-> "success", error |-> "none", public |-> public,
     state_update |-> state_update, state_update_if_false_positive |-> StateUpdate]

\* DefinedErrorData(public, state_update, state_update_if_false_positive)
DefinedErrorData(errorType, state_update, state_update_if_false_positive) ==
    [kind |-> "defined_error", error |-> errorType, public |-> NoTipGeometry,
     state_update |-> state_update,
     state_update_if_false_positive |-> state_update_if_false_positive]

\* an exception that leaves the command: no data, no state update
Raised(exception) ==
    [kind |-> "raised", error |-> exception, public |-> NoTipGeometry,
     state_update |-> StateUpdate, state_update_if_false_positive |-> StateUpdate]

Init ==
    /\ tracker = InitialTracker
    /\ hw = InitialHw
    /\ pipette \in Pipettes
    /\ robot \in {"OT-3 Standard", "OT-2 Standard"}
    /\ robot = "OT-2 Standard" => pipette.channels # 96
    /\ pc = "idle"
    /\ cmd = NoCommand
    /\ steps = <<>>
    /\ result = NoResult
    /\ pre = [tracker |-> InitialTracker, hw |-> InitialHw]

(***************************************************************************)
(* HardwareTipHandler helpers.                                             *)
(***************************************************************************)
\* a configuration that reports sensing as supported on every pipette
Mutant_get_tip_presence_config(p) == <<TRUE, "None">>

\* get_tip_presence_config: <<tip_presence_supported, follow_singular_sensor>>
get_tip_presence_config(p) ==
    LET nozzle_configuration == p.nozzle_map
        tip_presence_supported ==
            CASE p.channels = 1 -> TRUE
              [] p.channels = 8 ->
                    nozzle_configuration.tip_count >= supported_partial_nozzle_minimum
              [] p.channels = 96 ->
                    /\ nozzle_configuration.configuration # "SINGLE"
                    /\ nozzle_configuration.tip_count >= supported_partial_nozzle_minimum
        use_left == tip_on_left_side_96(nozzle_configuration.back_left)
        use_right == tip_on_right_side_96(nozzle_configuration.front_right)
        follow_singular_sensor ==
            IF /\ p.channels = 96
               /\ nozzle_configuration.configuration # "FULL"
               /\ tip_presence_supported
               /\ ~(use_left /\ use_right)
            THEN IF use_left THEN "PRIMARY" ELSE "SECONDARY"
            ELSE "None"
    IN  <<tip_presence_supported, follow_singular_sensor>>

\* what the hardware does with ot3api.verify_tip_presence(expected): on an
\* OT-2 ensure_ot3_hardware raises HardwareNotSupportedError; on a Flex the
\* check fails when the sensed status is not the expected one
HardwareCheck(rob, expected, sensed) ==
    IF rob # "OT-3 Standard" THEN "HardwareNotSupportedError"
    ELSE IF sensed # expected THEN "FailedTipStateCheck"
    ELSE "ok"

\* verify_tip_presence that reports a failed check as TipNotAttachedError
\* whatever was expected
Mutant_verify_tip_presence(rob, expected, sensed) ==
    IF HardwareCheck(rob, expected, sensed) = "FailedTipStateCheck"
    THEN "TipNotAttachedError" ELSE "ok"

\* HardwareTipHandler.verify_tip_presence: "ok" or the exception it raises
verify_tip_presence(rob, expected, sensed) ==
    LET check == HardwareCheck(rob, expected, sensed)
    IN  CASE check = "HardwareNotSupportedError" -> "ok"
          [] check = "FailedTipStateCheck" ->
                IF expected = "ABSENT" THEN "TipAttachedError"
                ELSE IF expected = "PRESENT" THEN "TipNotAttachedError"
                ELSE "ProtocolEngineError"
          [] OTHER -> "ok"

\* HardwareTipHandler.cache_tip
cache_tip(h, tip) ==
    [tip_length |-> tip.length, tiprack_diameter |-> tip.diameter,
     working_volume |-> tip.volume]

\* remove_tip that leaves the tip rack diameter as it is
Mutant_remove_tip(h) ==
    [h EXCEPT !.tip_length = 0]

\* HardwareTipHandler.remove_tip
remove_tip(h) ==
    [h EXCEPT !.tip_length = 0, !.tiprack_diameter = 0]

\* the start of HardwareTipHandler.pick_up_tip: the nominal geometry of the
\* well's tip with the calibrated length, or the nominal one as fallback
ResolvedGeometry(calibrated_tip_length) ==
    LET nominal_tip_geometry ==
            TipGeometry(NominalLength, NominalDiameter, NominalVolume)
        actual_tip_length ==
            IF calibrated_tip_length = 0 THEN nominal_tip_geometry.length
            ELSE calibrated_tip_length
    IN  TipGeometry(actual_tip_length, nominal_tip_geometry.diameter,
                    nominal_tip_geometry.volume)


(***************************************************************************)
(* The state updates PickUpTipImplementation.execute builds.               *)
(***************************************************************************)
\* state_update_if_false_positive that forgets the tip state update
Mutant_FalsePositive_state_update(move_state_update, tip_geometry, tips_to_mark_as_used) ==
    mark_tips_as_used(
        set_fluid_empty(reduce(StateUpdate, move_state_update), TRUE),
        tips_to_mark_as_used)

\* the except branch: state_update_if_false_positive
FalsePositive_state_update(move_state_update, tip_geometry, tips_to_mark_as_used) ==
    mark_tips_as_used(
        set_fluid_empty(
            update_pipette_tip_state(reduce(StateUpdate, move_state_update),
                                     tip_geometry),
            TRUE),
        tips_to_mark_as_used)

\* state_update that drops the tip from the state and leaves the fluid alone
Mutant_state_update_no_fluid(move_state_update, tips_to_mark_as_used) ==
    update_pipette_tip_state(
        mark_tips_as_used(reduce(StateUpdate, move_state_update),
                          tips_to_mark_as_used),
        NoTipGeometry)

\* state_update that forgets to mark the tips as used
Mutant_state_update_unmarked(move_state_update, tips_to_mark_as_used) ==
    set_fluid_unknown(reduce(StateUpdate, move_state_update))

\* state_update built on the object state_update_if_false_positive was built
\* on, as when reduce hands back one shared accumulator
Mutant_state_update_shared(move_state_update, tips_to_mark_as_used) ==
    set_fluid_unknown(
        mark_tips_as_used(
            set_fluid_empty(
                update_pipette_tip_state(reduce(StateUpdate, move_state_update),
                                         ResolvedGeometry(0)),
                TRUE),
            tips_to_mark_as_used))

\* the except branch: state_update
TipPhysicallyMissing_state_update(move_state_update, tips_to_mark_as_used) ==
    set_fluid_unknown(
        mark_tips_as_used(reduce(StateUpdate, move_state_update),
                          tips_to_mark_as_used))

\* success state_update that marks only the target well as used
Mutant_Success_state_update(move_state_update, tip_geometry, tips_to_mark_as_used) ==
    set_pipette_ready_to_aspirate(
        set_fluid_empty(
            mark_tips_as_used(
                update_pipette_tip_state(move_state_update, tip_geometry),
                {move_state_update.pipette_location.well}),
            TRUE),
        TRUE)

\* the else branch: state_update of the SuccessData
Success_state_update(move_state_update, tip_geometry, tips_to_mark_as_used) ==
    set_pipette_ready_to_aspirate(
        set_fluid_empty(
            mark_tips_as_used(
                update_pipette_tip_state(move_state_update, tip_geometry),
                tips_to_mark_as_used),
            TRUE),
        TRUE)

\* what execute returns when the tip handler raised PickUpTipTipNotAttachedError
ExecuteTipNotAttached(c, e_tip_geometry) ==
    DefinedErrorData("tipPhysicallyMissing",
        TipPhysicallyMissing_state_update(c.move_state_update, c.tips_to_mark_as_used),
        FalsePositive_state_update(c.move_state_update, e_tip_geometry,
                                   c.tips_to_mark_as_used))

\* what execute returns when the tip handler returned tip_geometry
ExecuteSuccess(c, tip_geometry) ==
    SuccessData(tip_geometry,
        Success_state_update(c.move_state_update, tip_geometry, c.tips_to_mark_as_used))

\* movement_common.move_to_well: the state update of a successful move
MoveSuccess_state_update(well_name) == set_pipette_location(StateUpdate, well_name)

\* movement_common.move_to_well: the state update of a StallOrCollisionError
MoveStall_state_update == clear_all_pipette_locations(StateUpdate)

(***************************************************************************)
(* PickUpTipImplementation.execute with the HardwareTipHandler.            *)
(***************************************************************************)
\* execute starts: the tips to mark as used are computed from the nozzle map
\* before anything moves
ExecuteBegin(well_name) ==
    /\ pc = "idle"
    /\ pc' = "move_to_well"
    /\ cmd' = [NoCommand EXCEPT
                !.command = "pickUpTip",
                !.well_name = well_name,
                !.tips_to_mark_as_used =
                    compute_tips_to_mark_as_used(well_name, pipette.nozzle_map),
                !.do_not_ignore_tip_presence = TRUE]
    /\ steps' = <<>>
    /\ result' = NoResult
    /\ pre' = [tracker |-> tracker, hw |-> hw]
    /\ UNCHANGED <<tracker, hw, pipette, robot>>

\* await move_to_well(...) returned SuccessData
MoveToWellOk ==
    /\ pc = "move_to_well"
    /\ cmd' = [cmd EXCEPT !.move_state_update = MoveSuccess_state_update(cmd.well_name)]
    /\ steps' = Append(steps, "move_to_well")
    /\ pc' = "resolve_geometry"
    /\ UNCHANGED <<tracker, hw, pipette, robot, result, pre>>

\* execute without the early return: the error is noted, the pickup goes on
Mutant_MoveToWellStall ==
    /\ pc = "move_to_well"
    /\ steps' = Append(steps, "move_to_well")
    /\ result' = DefinedErrorData("stallOrCollision", MoveStall_state_update, StateUpdate)
    /\ cmd' = [cmd EXCEPT !.move_state_update = MoveStall_state_update]
    /\ pc' = "resolve_geometry"
    /\ UNCHANGED <<tracker, hw, pipette, robot, pre>>

\* await move_to_well(...) returned DefinedErrorData: execute returns it
MoveToWellStall ==
    /\ pc = "move_to_well"
    /\ steps' = Append(steps, "move_to_well")
    /\ result' = DefinedErrorData("stallOrCollision", MoveStall_state_update, StateUpdate)
    /\ tracker' = Apply(tracker, MoveStall_state_update)
    /\ pc' = "idle"
    /\ UNCHANGED <<hw, pipette, robot, cmd, pre>>

\* await move_to_well(...) raised or was cancelled
MoveToWellRaises ==
    /\ pc = "move_to_well"
    /\ steps' = Append(steps, "move_to_well")
    /\ result' = Raised("MoveFailed")
    /\ pc' = "idle"
    /\ UNCHANGED <<tracker, hw, pipette, robot, cmd, pre>>

\* pick_up_tip: nominal geometry and calibrated length (0: no calibration)
ResolveGeometry(calibrated_tip_length) ==
    /\ pc = "resolve_geometry"
    /\ cmd' = [cmd EXCEPT !.tip_geometry = ResolvedGeometry(calibrated_tip_length)]
    /\ steps' = Append(steps, "resolve_geometry")
    /\ pc' = "tip_pickup_moves"
    /\ UNCHANGED <<tracker, hw, pipette, robot, result, pre>>

\* pick_up_tip: the tip rack's definition cannot be found
ResolveGeometryRaises ==
    /\ pc = "resolve_geometry"
    /\ steps' = Append(steps, "resolve_geometry")
    /\ result' = Raised("LabwareDefinitionNotFound")
    /\ pc' = "idle"
    /\ UNCHANGED <<tracker, hw, pipette, robot, cmd, pre>>

\* pick_up_tip: await hardware_api.tip_pickup_moves(...) returned
TipPickupMovesOk ==
    /\ pc = "tip_pickup_moves"
    /\ steps' = Append(steps, "tip_pickup_moves")
    /\ pc' = "verify_tip_presence"
    /\ UNCHANGED <<tracker, hw, pipette, robot, cmd, result, pre>>

\* pick_up_tip: await hardware_api.tip_pickup_moves(...) raised or was cancelled
TipPickupMovesRaises ==
    /\ pc = "tip_pickup_moves"
    /\ steps' = Append(steps, "tip_pickup_moves")
    /\ result' = Raised("PickupMotionFailed")
    /\ pc' = "idle"
    /\ UNCHANGED <<tracker, hw, pipette, robot, cmd, pre>>

\* the status the presence sensor can report on this robot
SensorReadings == IF robot = "OT-3 Standard" THEN {"PRESENT", "ABSENT"} ELSE {"UNKNOWN"}

\* pick_up_tip: the presence check is not made (ignored, or not supported by
\* the nozzle configuration); the tip is cached
VerifyPresenceSkipped ==
    /\ pc = "verify_tip_presence"
    /\ ~(cmd.do_not_ignore_tip_presence /\ get_tip_presence_config(pipette)[1])
    /\ steps' = Append(steps, "cache_tip")
    /\ hw' = cache_tip(hw, cmd.tip_geometry)
    /\ pc' = "prepare_for_aspirate"
    /\ UNCHANGED <<tracker, pipette, robot, cmd, result, pre>>

\* pick_up_tip that caches the tip before it verifies the presence
Mutant_VerifyPresenceOk(sensed) ==
    /\ pc = "verify_tip_presence"
    /\ cmd.do_not_ignore_tip_presence
    /\ get_tip_presence_config(pipette)[1]
    /\ verify_tip_presence(robot, "PRESENT", sensed) = "ok"
    /\ cmd' = [cmd EXCEPT !.sensed = sensed]
    /\ steps' = steps \o <<"cache_tip", "verify_tip_presence">>
    /\ hw' = cache_tip(hw, cmd.tip_geometry)
    /\ pc' = "prepare_for_aspirate"
    /\ UNCHANGED <<tracker, pipette, robot, result, pre>>

\* pick_up_tip: the presence check passes; the tip is cached
VerifyPresenceOk(sensed) ==
    /\ pc = "verify_tip_presence"
    /\ cmd.do_not_ignore_tip_presence
    /\ get_tip_presence_config(pipette)[1]
    /\ verify_tip_presence(robot, "PRESENT", sensed) = "ok"
    /\ cmd' = [cmd EXCEPT !.sensed = sensed]
    /\ steps' = steps \o <<"verify_tip_presence", "cache_tip">>
    /\ hw' = cache_tip(hw, cmd.tip_geometry)
    /\ pc' = "prepare_for_aspirate"
    /\ UNCHANGED <<tracker, pipette, robot, result, pre>>

\* pick_up_tip: the presence check fails with TipNotAttachedError, re-raised
\* as PickUpTipTipNotAttachedError(tip_geometry), which execute catches
VerifyPresenceTipNotAttached(sensed) ==
    /\ pc = "verify_tip_presence"
    /\ cmd.do_not_ignore_tip_presence
    /\ get_tip_presence_config(pipette)[1]
    /\ verify_tip_presence(robot, "PRESENT", sensed) = "TipNotAttachedError"
    /\ cmd' = [cmd EXCEPT !.sensed = sensed]
    /\ steps' = Append(steps, "verify_tip_presence")
    /\ result' = ExecuteTipNotAttached(cmd, cmd.tip_geometry)
    /\ pc' = "recovery"
    /\ UNCHANGED <<tracker, hw, pipette, robot, pre>>

\* pick_up_tip that has cached the tip when the sensing call raises
Mutant_VerifyPresenceRaises ==
    /\ pc = "verify_tip_presence"
    /\ cmd.do_not_ignore_tip_presence
    /\ get_tip_presence_config(pipette)[1]
    /\ robot = "OT-3 Standard"
    /\ steps' = steps \o <<"cache_tip", "verify_tip_presence">>
    /\ hw' = cache_tip(hw, cmd.tip_geometry)
    /\ result' = Raised("SensingFailed")
    /\ pc' = "idle"
    /\ UNCHANGED <<tracker, pipette, robot, cmd, pre>>

\* pick_up_tip: the sensing call raised something else or was cancelled
VerifyPresenceRaises ==
    /\ pc = "verify_tip_presence"
    /\ cmd.do_not_ignore_tip_presence
    /\ get_tip_presence_config(pipette)[1]
    /\ robot = "OT-3 Standard"
    /\ steps' = Append(steps, "verify_tip_presence")
    /\ result' = Raised("SensingFailed")
    /\ pc' = "idle"
    /\ UNCHANGED <<tracker, hw, pipette, robot, cmd, pre>>

\* pick_up_tip: await prepare_for_aspirate returned; execute returns
\* SuccessData, whose state update is applied
PrepareForAspirateOk ==
    /\ pc = "prepare_for_aspirate"
    /\ steps' = Append(steps, "prepare_for_aspirate")
    /\ result' = ExecuteSuccess(cmd, cmd.tip_geometry)
    /\ tracker' = Apply(tracker, ExecuteSuccess(cmd, cmd.tip_geometry).state_update)
    /\ pc' = "idle"
    /\ UNCHANGED <<hw, pipette, robot, cmd, pre>>

\* pick_up_tip: await prepare_for_aspirate raised or was cancelled
PrepareForAspirateRaises ==
    /\ pc = "prepare_for_aspirate"
    /\ steps' = Append(steps, "prepare_for_aspirate")
    /\ result' = Raised("PrepareForAspirateFailed")
    /\ pc' = "idle"
    /\ UNCHANGED <<tracker, hw, pipette, robot, cmd, pre>>

\* the recovery policy commits exactly one of the two deltas of the error
ResolveRecovery(false_positive) ==
    /\ pc = "recovery"
    /\ tracker' = Apply(tracker, IF false_positive
                                 THEN result.state_update_if_false_positive
                                 ELSE result.state_update)
    /\ steps' = Append(steps, IF false_positive THEN "commit_false_positive"
                              ELSE "commit_genuine")
    /\ pc' = "idle"
    /\ UNCHANGED <<hw, pipette, robot, cmd, result, pre>>


(***************************************************************************)
(* The drop tip command with HardwareTipHandler.drop_tip.                  *)
(***************************************************************************)
\* the state update of a successful drop: no tip, fluid state reset
DropTip_state_update ==
    set_fluid_unknown(update_pipette_tip_state(StateUpdate, NoTipGeometry))

DropTipBegin(do_not_ignore_tip_presence) ==
    /\ pc = "idle"
    /\ pc' = "tip_drop_moves"
    /\ cmd' = [NoCommand EXCEPT
                !.command = "dropTip",
                !.do_not_ignore_tip_presence = do_not_ignore_tip_presence]
    /\ steps' = <<>>
    /\ result' = NoResult
    /\ pre' = [tracker |-> tracker, hw |-> hw]
    /\ UNCHANGED <<tracker, hw, pipette, robot>>

\* drop_tip: await hardware_api.tip_drop_moves(...) returned
TipDropMovesOk ==
    /\ pc = "tip_drop_moves"
    /\ steps' = Append(steps, "tip_drop_moves")
    /\ pc' = "verify_tip_absence"
    /\ UNCHANGED <<tracker, hw, pipette, robot, cmd, result, pre>>

\* drop_tip: await hardware_api.tip_drop_moves(...) raised or was cancelled
TipDropMovesRaises ==
    /\ pc = "tip_drop_moves"
    /\ steps' = Append(steps, "tip_drop_moves")
    /\ result' = Raised("DropMotionFailed")
    /\ pc' = "idle"
    /\ UNCHANGED <<tracker, hw, pipette, robot, cmd, pre>>

\* drop_tip: the check is not made; remove_tip, and the command commits
DropVerifySkipped ==
    /\ pc = "verify_tip_absence"
    /\ ~cmd.do_not_ignore_tip_presence
    /\ steps' = Append(steps, "remove_tip")
    /\ hw' = remove_tip(hw)
    /\ result' = SuccessData(NoTipGeometry, DropTip_state_update)
    /\ tracker' = Apply(tracker, DropTip_state_update)
    /\ pc' = "idle"
    /\ UNCHANGED <<pipette, robot, cmd, pre>>

\* drop_tip: the check passes; remove_tip, and the command commits
DropVerifyOk(sensed) ==
    /\ pc = "verify_tip_absence"
    /\ cmd.do_not_ignore_tip_presence
    /\ verify_tip_presence(robot, "ABSENT", sensed) = "ok"
    /\ cmd' = [cmd EXCEPT !.sensed = sensed]
    /\ steps' = steps \o <<"verify_tip_presence", "remove_tip">>
    /\ hw' = remove_tip(hw)
    /\ result' = SuccessData(NoTipGeometry, DropTip_state_update)
    /\ tracker' = Apply(tracker, DropTip_state_update)
    /\ pc' = "idle"
    /\ UNCHANGED <<pipette, robot, pre>>

\* drop_tip that removes the tip although the check fails
Mutant_DropVerifyTipAttached(sensed) ==
    /\ pc = "verify_tip_absence"
    /\ cmd.do_not_ignore_tip_presence
    /\ verify_tip_presence(robot, "ABSENT", sensed) = "TipAttachedError"
    /\ cmd' = [cmd EXCEPT !.sensed = sensed]
    /\ steps' = steps \o <<"verify_tip_presence", "remove_tip">>
    /\ hw' = remove_tip(hw)
    /\ result' = Raised("TipAttachedError")
    /\ pc' = "idle"
    /\ UNCHANGED <<tracker, pipette, robot, pre>>

\* drop_tip: the check fails, TipAttachedError propagates
DropVerifyTipAttached(sensed) ==
    /\ pc = "verify_tip_absence"
    /\ cmd.do_not_ignore_tip_presence
    /\ verify_tip_presence(robot, "ABSENT", sensed) = "TipAttachedError"
    /\ cmd' = [cmd EXCEPT !.sensed = sensed]
    /\ steps' = Append(steps, "verify_tip_presence")
    /\ result' = Raised("TipAttachedError")
    /\ pc' = "idle"
    /\ UNCHANGED <<tracker, hw, pipette, robot, pre>>

\* drop_tip: the sensing call raised something else or was cancelled
DropVerifyRaises ==
    /\ pc = "verify_tip_absence"
    /\ cmd.do_not_ignore_tip_presence
    /\ robot = "OT-3 Standard"
    /\ steps' = Append(steps, "verify_tip_presence")
    /\ result' = Raised("SensingFailed")
    /\ pc' = "idle"
    /\ UNCHANGED <<tracker, hw, pipette, robot, cmd, pre>>

(***************************************************************************)
(* Aspirating into the attached tip.                                       *)
(***************************************************************************)
Aspirate(volume) ==
    /\ pc = "idle"
    /\ tracker.has_tip
    /\ tracker.volume_known
    /\ tracker.current_volume + volume <= tracker.tip_geometry.volume
    /\ cmd' = [NoCommand EXCEPT !.command = "aspirate"]
    /\ steps' = <<"aspirate">>
    /\ result' = SuccessData(NoTipGeometry, set_fluid_aspirated(StateUpdate, volume))
    /\ pre' = [tracker |-> tracker, hw |-> hw]
    /\ tracker' = Apply(tracker, set_fluid_aspirated(StateUpdate, volume))
    /\ UNCHANGED <<hw, pipette, robot, pc>>

Next ==
    \/ \E well_name \in Wells : ExecuteBegin(well_name)
    \/ MoveToWellOk
    \/ MoveToWellStall
    \/ MoveToWellRaises
    \/ \E calibrated_tip_length \in {0, CalibratedLength} :
            ResolveGeometry(calibrated_tip_length)
    \/ ResolveGeometryRaises
    \/ TipPickupMovesOk
    \/ TipPickupMovesRaises
    \/ VerifyPresenceSkipped
    \/ \E sensed \in SensorReadings : VerifyPresenceOk(sensed)
    \/ \E sensed \in SensorReadings : VerifyPresenceTipNotAttached(sensed)
    \/ VerifyPresenceRaises
    \/ PrepareForAspirateOk
    \/ PrepareForAspirateRaises
    \/ \E false_positive \in BOOLEAN : ResolveRecovery(false_positive)
    \/ \E do_not_ignore_tip_presence \in BOOLEAN : DropTipBegin(do_not_ignore_tip_presence)
    \/ TipDropMovesOk
    \/ TipDropMovesRaises
    \/ DropVerifySkipped
    \/ \E sensed \in SensorReadings : DropVerifyOk(sensed)
    \/ \E sensed \in SensorReadings : DropVerifyTipAttached(sensed)
    \/ DropVerifyRaises
    \/ \E volume \in 1..NominalVolume : Aspirate(volume)

Spec == Init /\ [][Next]_vars

TypeOK ==
    /\ tracker.has_tip \in BOOLEAN
    /\ tracker.current_volume \in 0..NominalVolume
    /\ tracker.tips_used \subseteq Wells
    /\ pc \in {"idle", "move_to_well", "resolve_geometry", "tip_pickup_moves",
               "verify_tip_presence", "prepare_for_aspirate", "recovery",
               "tip_drop_moves", "verify_tip_absence"}
    /\ result.kind \in {"none", "success", "defined_error", "raised"}


(***************************************************************************)
(* Properties of the pickUpTip command.                                    *)
(***************************************************************************)
PickUpFailedVerification ==
    /\ cmd.command = "pickUpTip"
    /\ result.kind = "defined_error"
    /\ result.error = "tipPhysicallyMissing"

C2_FalsePositiveIsSuccess ==
    PickUpFailedVerification =>
        Apply(pre.tracker, result.state_update_if_false_positive)
            = Apply(pre.tracker,
                    Success_state_update(cmd.move_state_update, cmd.tip_geometry,
                                         cmd.tips_to_mark_as_used))

\* C3: the genuine delta of a tipPhysicallyMissing error marks as used the
\* wells a successful pickup marks (those under the active nozzle map,
\* computed when the command began), sets the fluid state to unknown and has
\* no tip state update.
C3_GenuineDelta ==
    PickUpFailedVerification =>
        /\ result.state_update.tips_used =
              [changed |-> TRUE, well_names |-> cmd.tips_to_mark_as_used]
        /\ result.state_update.tips_used =
              Success_state_update(cmd.move_state_update, cmd.tip_geometry,
                                   cmd.tips_to_mark_as_used).tips_used
        /\ pc = "recovery" => cmd.tips_to_mark_as_used =
              compute_tips_to_mark_as_used(cmd.well_name, pipette.nozzle_map)
        /\ result.state_update.pipette_aspirated_fluid.type = "unknown"
        /\ ~result.state_update.pipette_tip_state.changed
        /\ ~result.state_update.ready_to_aspirate.changed

C3_Witness ==
    /\ pc = "recovery"
    /\ PickUpFailedVerification
    /\ Cardinality(result.state_update.tips_used.well_names) > 1

PickUpSucceeded ==
    /\ cmd.command = "pickUpTip"
    /\ result.kind = "success"

\* C4: the state update of a successful pickup sets the tip state to the
\* geometry the tip handler resolved (a tip is attached), the fluid to empty
\* with a clean tip (volume 0), ready_to_aspirate to TRUE and marks every
\* well under the active nozzle map as used; the public result carries
\* the same geometry.
C4_SuccessCommit ==
    PickUpSucceeded =>
        /\ cmd.tip_geometry \in
              {ResolvedGeometry(0), ResolvedGeometry(CalibratedLength)}
        /\ cmd.tip_geometry # NoTipGeometry
        /\ result.state_update.pipette_tip_state =
              [changed |-> TRUE, tip_geometry |-> cmd.tip_geometry]
        /\ result.state_update.pipette_aspirated_fluid =
              [type |-> "empty", volume |-> 0, clean_tip |-> TRUE]
        /\ result.state_update.ready_to_aspirate =
              [changed |-> TRUE, value |-> TRUE]
        /\ result.state_update.tips_used =
              [changed |-> TRUE, well_names |->
                  compute_tips_to_mark_as_used(cmd.well_name, pipette.nozzle_map)]
        /\ result.state_update.pipette_location =
              [changed |-> TRUE, well |-> cmd.well_name]
        /\ result.public = cmd.tip_geometry
        /\ tracker.has_tip = TRUE
        /\ tracker.tip_geometry = cmd.tip_geometry
        /\ tracker.current_volume = 0
        /\ tracker.ready_to_aspirate = TRUE
        /\ result.state_update.tips_used.well_names \subseteq tracker.tips_used

C4_Witness ==
    /\ PickUpSucceeded
    /\ cmd.sensed = "PRESENT"
    /\ Cardinality(cmd.tips_to_mark_as_used) > 1
    /\ tracker.has_tip

\* C5: when the move to the well returns a StallOrCollisionError, execute
\* returns that defined error as it is, and the tip handler is not called:
\* no geometry, no pickup motion, no sensing, no tip state or tips used update.
C5_StallReturnsEarly ==
    (cmd.command = "pickUpTip" /\ result.error = "stallOrCollision") =>
        /\ result = DefinedErrorData("stallOrCollision", MoveStall_state_update,
                                     StateUpdate)
        /\ pc = "idle"
        /\ steps = <<"move_to_well">>
        /\ cmd.tip_geometry = NoTipGeometry
        /\ cmd.sensed = "none"
        /\ hw = pre.hw
        /\ ~result.state_update.pipette_tip_state.changed
        /\ ~result.state_update.tips_used.changed
        /\ tracker = pre.tracker

C5_Witness ==
    /\ cmd.command = "pickUpTip"
    /\ result.error = "stallOrCollision"
    /\ pc = "idle"


(***************************************************************************)
(* Properties of HardwareTipHandler.pick_up_tip and drop_tip.              *)
(***************************************************************************)
\* place of a step in pick_up_tip
Rank(step) ==
    CASE step = "move_to_well" -> 0
      [] step = "resolve_geometry" -> 1
      [] step = "tip_pickup_moves" -> 2
      [] step = "verify_tip_presence" -> 3
      [] step = "cache_tip" -> 4
      [] step = "prepare_for_aspirate" -> 5
      [] OTHER -> 6

Performed(step) == \E i \in 1..Len(steps) : steps[i] = step

\* C6: pick_up_tip resolves the geometry, then issues the pickup motion, then
\* (if enabled and supported) verifies presence, then caches the tip, then
\* prepares for aspirate; the geometry is resolved before presence is
\* verified, and a PickUpTipTipNotAttachedError carries it.
C6_StepOrder ==
    cmd.command = "pickUpTip" =>
        /\ \A i, j \in 1..Len(steps) : i < j => Rank(steps[i]) < Rank(steps[j])
        /\ \A i \in 1..Len(steps) :
              (Rank(steps[i]) \in 2..5) => Performed("resolve_geometry")
        /\ \A i \in 1..Len(steps) :
              (Rank(steps[i]) \in 3..5) => Performed("tip_pickup_moves")
        /\ Performed("prepare_for_aspirate") => Performed("cache_tip")
        /\ Performed("cache_tip") =>
              (Performed("verify_tip_presence") <=>
                  (cmd.do_not_ignore_tip_presence /\ get_tip_presence_config(pipette)[1]))
        /\ Performed("verify_tip_presence") =>
              /\ Performed("resolve_geometry")
              /\ cmd.tip_geometry # NoTipGeometry
        /\ PickUpFailedVerification =>
              /\ result.state_update_if_false_positive.pipette_tip_state.tip_geometry
                    = cmd.tip_geometry
              /\ cmd.tip_geometry \in
                    {ResolvedGeometry(0), ResolvedGeometry(CalibratedLength)}

C6_Witness ==
    /\ cmd.command = "pickUpTip"
    /\ steps = <<"move_to_well", "resolve_geometry", "tip_pickup_moves",
                 "verify_tip_presence", "cache_tip", "prepare_for_aspirate">>

\* C7: when the pickup motion or the sensing call is cancelled or fails with
\* anything but the tip-not-attached mismatch, cache_tip has not been called
\* and execute yields no state update: the tracker is as before the command.
C7_NoUpdateOnFailure ==
    (/\ cmd.command = "pickUpTip"
     /\ result.kind = "raised"
     /\ result.error \in {"PickupMotionFailed", "SensingFailed"}) =>
        /\ ~Performed("cache_tip")
        /\ hw = pre.hw
        /\ result.state_update = StateUpdate
        /\ result.state_update_if_false_positive = StateUpdate
        /\ tracker = pre.tracker

C7_Witness ==
    /\ cmd.command = "pickUpTip"
    /\ result.error = "SensingFailed"
    /\ Performed("tip_pickup_moves")
    /\ tracker = pre.tracker

\* C8: in drop_tip with verification, a tip sensed present after the drop
\* motion raises TipAttachedError (an exception, no defined error with two
\* deltas), and remove_tip is not called: the hardware's tip and tip rack
\* diameter, and the tracker, stay as they were.
C8_DropTipAttached ==
    /\ (cmd.command = "dropTip" /\ cmd.sensed = "PRESENT") =>
          /\ result.kind = "raised"
          /\ result.error = "TipAttachedError"
    /\ (cmd.command = "dropTip" /\ result.error = "TipAttachedError") =>
          /\ cmd.do_not_ignore_tip_presence
          /\ result = Raised("TipAttachedError")
          /\ ~Performed("remove_tip")
          /\ hw = pre.hw
          /\ tracker = pre.tracker

C8_Witness ==
    /\ cmd.command = "dropTip"
    /\ result.error = "TipAttachedError"
    /\ hw.tip_length > 0
    /\ hw.tiprack_diameter > 0
    /\ tracker.has_tip

\* C9: after a successful pickup on a pipette without tip, a drop_tip with
\* verification whose sensor reports absent brings the tip state back to the
\* baseline: has_tip = FALSE, no tip geometry, volume 0 (and no tip in the
\* hardware's cache).
C9_RoundTrip ==
    (/\ cmd.command = "dropTip"
     /\ cmd.do_not_ignore_tip_presence
     /\ cmd.sensed = "ABSENT"
     /\ result.kind = "success") =>
        /\ tracker.has_tip = InitialTracker.has_tip
        /\ tracker.tip_geometry = InitialTracker.tip_geometry
        /\ tracker.current_volume = InitialTracker.current_volume
        /\ tracker.has_tip = FALSE
        /\ hw.tip_length = 0
        /\ hw.tiprack_diameter = 0

\* the drop followed a successful pickup: the tip it dropped was a clean,
\* empty tip committed by a successful pickup
C9_Witness ==
    /\ cmd.command = "dropTip"
    /\ cmd.do_not_ignore_tip_presence
    /\ cmd.sensed = "ABSENT"
    /\ result.kind = "success"
    /\ pre.tracker.has_tip
    /\ pre.tracker.ready_to_aspirate
    /\ pre.tracker.volume_known
    /\ pre.tracker.current_volume = 0
    /\ pre.hw.tip_length = pre.tracker.tip_geometry.length
    /\ ~tracker.has_tip

\* C10: in every reachable tracker state, has_tip = FALSE implies
\* current_volume = 0.
C10_NoTipNoVolume ==
    tracker.has_tip = FALSE => tracker.current_volume = 0

\* a pickup on a pipette without tip failed verification and was resolved
\* as genuine
C10_Witness ==
    /\ cmd.command = "pickUpTip"
    /\ pc = "idle"
    /\ Performed("verify_tip_presence")
    /\ PickUpFailedVerification
    /\ tracker = Apply(pre.tracker, result.state_update)
    /\ tracker.tips_used # pre.tracker.tips_used
    /\ ~tracker.has_tip

(***************************************************************************)
(* Nozzle layout configuration: the engine's resolver                      *)
(* (tip_handler._available_for_nozzle_layout), the handlers' precondition, *)
(* and InstrumentContext.configure_nozzle_layout with its validators.      *)
(* Python's None is the string "None"; a key absent from a returned dict   *)
(* is "None" as well.                                                      *)
(***************************************************************************)
\* nozzle[0], the row letter of a nozzle name
NozzleRow ==
    [A1 |-> "A", B1 |-> "B", D1 |-> "D", H1 |-> "H", D2 |-> "D",
     A3 |-> "A", H3 |-> "H", A12 |-> "A", H12 |-> "H"]

\* rows are lettered from the back of the pipette to its front
RowIndex == [A |-> 1, B |-> 2, D |-> 4, H |-> 8]

ALLOWED_PRIMARY_NOZZLES == {"A1", "H1", "A12", "H12"}

PRIMARY_NOZZLE_TO_ENDING_NOZZLE_MAP ==
    [A1  |-> [COLUMN |-> "H1",  ROW |-> "A12"],
     H1  |-> [COLUMN |-> "A1",  ROW |-> "H12"],
     A12 |-> [COLUMN |-> "H12", ROW |-> "A1"],
     H12 |-> [COLUMN |-> "A12", ROW |-> "H1"]]

PRIMARY_NOZZLE_TO_BACK_LEFT_NOZZLE_MAP ==
    [A1  |-> [COLUMN |-> "A1",  ROW |-> "A1"],
     H1  |-> [COLUMN |-> "A1",  ROW |-> "H1"],
     A12 |-> [COLUMN |-> "A12", ROW |-> "A1"],
     H12 |-> [COLUMN |-> "A12", ROW |-> "H1"]]

\* table[primary_nozzle][style]; a missing key raises KeyError
Lookup(table, primary_nozzle, style) ==
    IF primary_nozzle \in DOMAIN table
    THEN IF style \in DOMAIN table[primary_nozzle]
         THEN table[primary_nozzle][style]
         ELSE "KeyError"
    ELSE "KeyError"

\* an exception, by its class and what tells its raise sites apart
Error(type, message) == [type |-> type, message |-> message]

NoError == Error("none", "")

PreconditionTipsAttached ==
    Error("CommandPreconditionViolated", "while it has tips attached")

PreconditionOneChannel ==
    Error("CommandPreconditionViolated", "with a 1 channel pipette")

LimitRowNozzleLayout ==
    Error("CommandParameterLimitViolated", "RowNozzleLayout")

LimitPartialColumnNozzleLayout ==
    Error("CommandParameterLimitViolated", "PartialColumnNozzleLayout")

KeyError == Error("KeyError", "")

\* the Dict[str, str] the resolver returns
NozzleDict(primary_nozzle, front_right_nozzle, back_left_nozzle) ==
    [error |-> NoError, primary_nozzle |-> primary_nozzle,
     front_right_nozzle |-> front_right_nozzle,
     back_left_nozzle |-> back_left_nozzle]

\* the resolver raising instead of returning
NozzleError(error) ==
    [error |-> error, primary_nozzle |-> "None",
     front_right_nozzle |-> "None", back_left_nozzle |-> "None"]

\* a dict built with table lookups: a KeyError in a lookup is raised
NozzleDictOrKeyError(primary_nozzle, front_right_nozzle, back_left_nozzle) ==
    IF "KeyError" \in {front_right_nozzle, back_left_nozzle}
    THEN NozzleError(KeyError)
    ELSE NozzleDict(primary_nozzle, front_right_nozzle, back_left_nozzle)

\* a QUADRANT with one corner that keeps the other corner unset
Mutant_quadrant_one_corner(primary_nozzle, front_right_nozzle, back_left_nozzle) ==
    NozzleDict(primary_nozzle, front_right_nozzle, back_left_nozzle)

\* the two returns for a QUADRANT with exactly one corner given: the
\* corner that is missing is the primary nozzle
quadrant_one_corner(primary_nozzle, front_right_nozzle, back_left_nozzle) ==
    IF back_left_nozzle = "None"
    THEN NozzleDict(primary_nozzle, front_right_nozzle, primary_nozzle)
    ELSE NozzleDict(primary_nozzle, primary_nozzle, back_left_nozzle)

\* what follows the two checks that do not look at the hints
resolve_nozzles(channels, style, primary_nozzle, front_right_nozzle, back_left_nozzle) ==
    LET ending == Lookup(PRIMARY_NOZZLE_TO_ENDING_NOZZLE_MAP,
                         primary_nozzle, style)
        backleft == Lookup(PRIMARY_NOZZLE_TO_BACK_LEFT_NOZZLE_MAP,
                           primary_nozzle, style)
    IN  IF style = "ROW" /\ channels = 8
        THEN NozzleError(LimitRowNozzleLayout)
        ELSE IF style = "PARTIAL_COLUM" /\ channels = 96
        THEN NozzleError(LimitPartialColumnNozzleLayout)
        ELSE IF primary_nozzle = "None" THEN NozzleDict("A1", "None", "None")
        ELSE IF style = "SINGLE"
        THEN NozzleDict(primary_nozzle, "None", "None")
        ELSE IF /\ style = "QUADRANT"
                /\ front_right_nozzle # "None"
                /\ back_left_nozzle = "None"
        THEN quadrant_one_corner(primary_nozzle, front_right_nozzle,
                                 back_left_nozzle)
        ELSE IF /\ style = "QUADRANT"
                /\ back_left_nozzle # "None"
                /\ front_right_nozzle = "None"
        THEN quadrant_one_corner(primary_nozzle, front_right_nozzle,
                                 back_left_nozzle)
        ELSE IF front_right_nozzle = "None" /\ back_left_nozzle # "None"
        THEN NozzleDictOrKeyError(primary_nozzle, ending, back_left_nozzle)
        ELSE IF front_right_nozzle # "None" /\ back_left_nozzle = "None"
        THEN NozzleDictOrKeyError(primary_nozzle, front_right_nozzle, backleft)
        ELSE IF front_right_nozzle # "None" /\ back_left_nozzle # "None"
        THEN NozzleDict(primary_nozzle, front_right_nozzle, back_left_nozzle)
        ELSE NozzleDictOrKeyError(primary_nozzle, ending, backleft)

\* the resolver with its first two checks in the other order
Mutant_resolver_all_first(channels, style, primary_nozzle, front_right_nozzle, back_left_nozzle) ==
    IF style = "ALL" THEN NozzleDict("None", "None", "None")
    ELSE IF channels = 1 THEN NozzleError(PreconditionOneChannel)
    ELSE resolve_nozzles(channels, style, primary_nozzle,
                         front_right_nozzle, back_left_nozzle)

_available_for_nozzle_layout(channels, style, primary_nozzle, front_right_nozzle, back_left_nozzle) ==
    IF channels = 1 THEN NozzleError(PreconditionOneChannel)
    ELSE IF style = "ALL" THEN NozzleDict("None", "None", "None")
    ELSE resolve_nozzles(channels, style, primary_nozzle,
                         front_right_nozzle, back_left_nozzle)

\* the handler without its check for an attached tip
Mutant_available_no_tip_check(t, channels, style, primary_nozzle, front_right_nozzle, back_left_nozzle) ==
    _available_for_nozzle_layout(channels, style, primary_nozzle,
                                 front_right_nozzle, back_left_nozzle)

\* HardwareTipHandler.available_for_nozzle_layout; t is the pipette's tracker
\* state (get_attached_tip is truthy exactly when has_tip)
HardwareTipHandler_available_for_nozzle_layout(t, channels, style, primary_nozzle, front_right_nozzle, back_left_nozzle) ==
    IF t.has_tip THEN NozzleError(PreconditionTipsAttached)
    ELSE _available_for_nozzle_layout(channels, style, primary_nozzle,
                                      front_right_nozzle, back_left_nozzle)

\* VirtualTipHandler.available_for_nozzle_layout
VirtualTipHandler_available_for_nozzle_layout(t, channels, style, primary_nozzle, front_right_nozzle, back_left_nozzle) ==
    IF t.has_tip THEN NozzleError(PreconditionTipsAttached)
    ELSE _available_for_nozzle_layout(channels, style, primary_nozzle,
                                      front_right_nozzle, back_left_nozzle)

\* a handler that takes a pipette already in a partial layout as one with
\* tips attached
Mutant_available_once(handler, t, channels, style, primary_nozzle, front_right_nozzle, back_left_nozzle) ==
    IF pipette.nozzle_map.configuration # "FULL"
    THEN NozzleError(PreconditionTipsAttached)
    ELSE HardwareTipHandler_available_for_nozzle_layout(
             t, channels, style, primary_nozzle, front_right_nozzle, back_left_nozzle)

\* the handler the engine was built with (use_virtual_pipettes)
available_for_nozzle_layout(handler, t, channels, style, primary_nozzle, front_right_nozzle, back_left_nozzle) ==
    IF handler = "virtual"
    THEN VirtualTipHandler_available_for_nozzle_layout(
             t, channels, style, primary_nozzle, front_right_nozzle,
             back_left_nozzle)
    ELSE HardwareTipHandler_available_for_nozzle_layout(
             t, channels, style, primary_nozzle, front_right_nozzle,
             back_left_nozzle)

(***************************************************************************)
(* The rectangle of nozzles a layout denotes, and the nozzle map the       *)
(* pipette gets from it.                                                   *)
(***************************************************************************)
RectRows(back_left, front_right) ==
    RowIndex[NozzleRow[front_right]] - RowIndex[NozzleRow[back_left]] + 1

RectColumns(back_left, front_right) ==
    NozzleColumn[front_right] - NozzleColumn[back_left] + 1

\* number of nozzles from back_left to front_right; 0 if the corners are
\* not in that order
RectCount(back_left, front_right) ==
    IF RectRows(back_left, front_right) >= 1
       /\ RectColumns(back_left, front_right) >= 1
    THEN RectRows(back_left, front_right) * RectColumns(back_left, front_right)
    ELSE 0

InRect(nozzle, back_left, front_right) ==
    /\ RowIndex[NozzleRow[back_left]] <= RowIndex[NozzleRow[nozzle]]
    /\ RowIndex[NozzleRow[nozzle]] <= RowIndex[NozzleRow[front_right]]
    /\ NozzleColumn[back_left] <= NozzleColumn[nozzle]
    /\ NozzleColumn[nozzle] <= NozzleColumn[front_right]

\* the corners a returned dict stands for: a missing corner is the primary
DictBackLeft(nozzles) ==
    IF nozzles.back_left_nozzle = "None" THEN nozzles.primary_nozzle
    ELSE nozzles.back_left_nozzle

DictFrontRight(nozzles) ==
    IF nozzles.front_right_nozzle = "None" THEN nozzles.primary_nozzle
    ELSE nozzles.front_right_nozzle

FullNozzleMap(channels) ==
    IF channels = 96 THEN NozzleMap("FULL", 96, "A1", "H12")
    ELSE IF channels = 8 THEN NozzleMap("FULL", 8, "A1", "H1")
    ELSE NozzleMap("FULL", 1, "A1", "A1")

\* the configuration type of a rectangle on a pipette
determine_nozzle_configuration(channels, back_left, front_right) ==
    LET rows == RectRows(back_left, front_right)
        columns == RectColumns(back_left, front_right)
    IN  IF rows * columns = channels THEN "FULL"
        ELSE IF rows * columns = 1 THEN "SINGLE"
        ELSE IF columns = 1 /\ rows = 8 THEN "COLUMN"
        ELSE IF rows = 1 /\ columns = 12 THEN "ROW"
        ELSE "SUBRECT"

\* no nozzle map: the corners denote no rectangle of the pipette's nozzles
\* that holds the primary
NoNozzleMap == NozzleMap("None", 0, "None", "None")

\* the nozzle map built from a resolved dict, or NoNozzleMap
update_nozzle_configuration(channels, nozzles) ==
    LET back_left == DictBackLeft(nozzles)
        front_right == DictFrontRight(nozzles)
    IN  IF nozzles.primary_nozzle = "None" THEN FullNozzleMap(channels)
        ELSE IF \/ (channels = 8 /\ NozzleColumn[back_left] # 1)
                \/ (channels = 8 /\ NozzleColumn[front_right] # 1)
                \/ RectCount(back_left, front_right) = 0
                \/ ~InRect(nozzles.primary_nozzle, back_left, front_right)
        THEN NoNozzleMap
        ELSE NozzleMap(determine_nozzle_configuration(channels, back_left,
                                                      front_right),
                       RectCount(back_left, front_right),
                       back_left, front_right)

(***************************************************************************)
(* InstrumentContext.configure_nozzle_layout.  An API version 2.n is the   *)
(* number n; the method exists from 2.16 on.                               *)
(***************************************************************************)
SINGLE_ROW_PARTIAL_COLUMN_ADDED_IN == 20

ValueError(message) == Error("ValueError", message)

\* letter in nozzle, for a row letter and a nozzle name
LetterIn(letter, nozzle) == NozzleRow[nozzle] = letter

_raise_if_configuration_not_supported_by_pipette(channels, style) ==
    IF style \in {"COLUMN", "ROW"} /\ channels # 96
    THEN ValueError("only supported on 96-Channel pipettes")
    ELSE IF style = "PARTIAL_COLUMN" /\ channels # 8
    THEN ValueError("only supported on 8-Channel pipettes")
    ELSE NoError

_raise_if_has_end_or_front_right_or_back_left(end, front_right, back_left) ==
    IF end # "None" \/ front_right # "None" \/ back_left # "None"
    THEN ValueError("'end', 'front_right' and 'back_left' cannot be used")
    ELSE NoError

\* the start check without the list of allowed nozzles
Mutant_check_valid_start_nozzle(start) ==
    IF start = "None" THEN ValueError("without a starting nozzle")
    ELSE NoError

_check_valid_start_nozzle(start) ==
    IF start = "None" THEN ValueError("without a starting nozzle")
    ELSE IF start \notin ALLOWED_PRIMARY_NOZZLES
    THEN ValueError("starting nozzle is not one of the allowed")
    ELSE NoError

\* the end check without its comparison of the two rows
Mutant_check_valid_end_nozzle(start, end) ==
    IF end = "None" THEN ValueError("require the 'end' parameter")
    ELSE IF start \in {"H1", "H12"} /\ LetterIn("A", end)
    THEN ValueError("cannot have its 'end' parameter be in row A")
    ELSE IF start \in {"A1", "A12"} /\ LetterIn("H", end)
    THEN ValueError("cannot have its 'end' parameter be in row H")
    ELSE NoError

_check_valid_end_nozzle(start, end) ==
    IF end = "None" THEN ValueError("require the 'end' parameter")
    ELSE IF LetterIn(NozzleRow[start], end)
    THEN ValueError("cannot be in the same row")
    ELSE IF start \in {"H1", "H12"} /\ LetterIn("A", end)
    THEN ValueError("cannot have its 'end' parameter be in row A")
    ELSE IF start \in {"A1", "A12"} /\ LetterIn("H", end)
    THEN ValueError("cannot have its 'end' parameter be in row H")
    ELSE NoError

_raise_if_no_front_right_or_back_left_for_quadrant(front_right, back_left) ==
    IF front_right = "None" /\ back_left = "None"
    THEN ValueError("without a front right or back left nozzle")
    ELSE NoError

_raise_if_has_end_nozzle_for_quadrant(end) ==
    IF end # "None" THEN ValueError("'end' is not supported for QUADRANT")
    ELSE NoError

_raise_if_has_front_right_or_back_left_for_partial_column(front_right, back_left) ==
    IF front_right # "None" \/ back_left # "None"
    THEN ValueError("'front_right' and 'back_left' cannot be used")
    ELSE NoError

\* the arguments of self._core.configure_nozzle_layout
CoreArgs(style, primary_nozzle, front_right_nozzle, back_left_nozzle) ==
    [error |-> NoError, style |-> style, primary_nozzle |-> primary_nozzle,
     front_right_nozzle |-> front_right_nozzle,
     back_left_nozzle |-> back_left_nozzle]

\* the method raising before it calls the core
ApiRaises(error) ==
    [error |-> error, style |-> "None", primary_nozzle |-> "None",
     front_right_nozzle |-> "None", back_left_nozzle |-> "None"]

\* the first exception of a non-empty sequence of checks run in order
FirstError(checks) ==
    IF \A i \in DOMAIN checks : checks[i] = NoError THEN NoError
    ELSE checks[CHOOSE i \in DOMAIN checks :
                    /\ checks[i] # NoError
                    /\ \A j \in 1..(i - 1) : checks[j] = NoError]

\* case NozzleLayout.SINGLE
single_args(style, start, end, front_right, back_left) ==
    LET error == FirstError(<<
            _check_valid_start_nozzle(start),
            _raise_if_has_end_or_front_right_or_back_left(
                end, front_right, back_left)>>)
    IN  IF error # NoError THEN ApiRaises(error)
        ELSE CoreArgs(style, start, front_right, back_left)

\* case NozzleLayout.COLUMN | NozzleLayout.ROW
column_row_args(channels, style, start, end, front_right, back_left) ==
    LET error == FirstError(<<
            _raise_if_configuration_not_supported_by_pipette(channels, style),
            _check_valid_start_nozzle(start),
            _raise_if_has_end_or_front_right_or_back_left(
                end, front_right, back_left)>>)
    IN  IF error # NoError THEN ApiRaises(error)
        ELSE CoreArgs(style, start, front_right, back_left)

\* the partial column case with the two corners swapped
Mutant_partial_column_args(channels, style, start, end, front_right, back_left) ==
    LET error == FirstError(<<
            _raise_if_configuration_not_supported_by_pipette(channels, style),
            _check_valid_start_nozzle(start)>>)
    IN  IF error # NoError THEN ApiRaises(error)
        ELSE IF _check_valid_end_nozzle(start, end) # NoError
        THEN ApiRaises(_check_valid_end_nozzle(start, end))
        ELSE IF _raise_if_has_front_right_or_back_left_for_partial_column(
                    front_right, back_left) # NoError
        THEN ApiRaises(
                 _raise_if_has_front_right_or_back_left_for_partial_column(
                     front_right, back_left))
        ELSE IF start = "H1" \/ start = "H12"
        THEN CoreArgs(style, start, end, start)
        ELSE CoreArgs(style, start, start, end)

\* case NozzleLayout.PARTIAL_COLUMN
partial_column_args(channels, style, start, end, front_right, back_left) ==
    LET error == FirstError(<<
            _raise_if_configuration_not_supported_by_pipette(channels, style),
            _check_valid_start_nozzle(start)>>)
    IN  IF error # NoError THEN ApiRaises(error)
        ELSE IF _check_valid_end_nozzle(start, end) # NoError
        THEN ApiRaises(_check_valid_end_nozzle(start, end))
        ELSE IF _raise_if_has_front_right_or_back_left_for_partial_column(
                    front_right, back_left) # NoError
        THEN ApiRaises(
                 _raise_if_has_front_right_or_back_left_for_partial_column(
                     front_right, back_left))
        ELSE IF start = "H1" \/ start = "H12"
        THEN CoreArgs(style, start, start, end)
        ELSE IF start = "A1" \/ start = "A12"
        THEN CoreArgs(style, start, end, start)
        ELSE CoreArgs(style, start, front_right, back_left)

\* case NozzleLayout.QUADRANT
quadrant_args(style, start, end, front_right, back_left) ==
    LET error == FirstError(<<
            _check_valid_start_nozzle(start),
            _raise_if_has_end_nozzle_for_quadrant(end),
            _raise_if_no_front_right_or_back_left_for_quadrant(
                front_right, back_left)>>)
    IN  IF error # NoError THEN ApiRaises(error)
        ELSE IF front_right = "None"
        THEN CoreArgs(style, start, start, back_left)
        ELSE IF back_left = "None"
        THEN CoreArgs(style, start, front_right, start)
        ELSE CoreArgs(style, start, front_right, back_left)

\* the method up to its call of the core: what it raises, or what it
\* passes to self._core.configure_nozzle_layout
configure_nozzle_layout_args(api_version, channels, style, start, end, front_right, back_left) ==
    IF style \in {"QUADRANT"}
    THEN ApiRaises(Error("UnsupportedAPIError", "style is unsupported"))
    ELSE IF /\ api_version < SINGLE_ROW_PARTIAL_COLUMN_ADDED_IN
            /\ style \notin {"COLUMN", "ALL"}
    THEN ApiRaises(Error("APIVersionError", "style"))
    ELSE IF style = "SINGLE"
    THEN single_args(style, start, end, front_right, back_left)
    ELSE IF style \in {"COLUMN", "ROW"}
    THEN column_row_args(channels, style, start, end, front_right, back_left)
    ELSE IF style = "PARTIAL_COLUMN"
    THEN partial_column_args(channels, style, start, end, front_right,
                             back_left)
    ELSE IF style = "QUADRANT"
    THEN quadrant_args(style, start, end, front_right, back_left)
    ELSE CoreArgs(style, start, front_right, back_left)

(***************************************************************************)
(* The configuration calls as a state machine of their own.  pipette also  *)
(* holds the InstrumentContext's api_version and tip_racks; cmd is the     *)
(* last call with the pipette as it was before it, result what it gave.    *)
(***************************************************************************)
ApiVersions == {19, 20}

Handlers == {"hardware", "virtual"}

Styles == {"ALL", "SINGLE", "ROW", "COLUMN", "PARTIAL_COLUMN", "QUADRANT"}

\* primary / start nozzles a caller may give: none, the allowed, one other
PrimaryNozzles == {"None", "A1", "H1", "A12", "H12", "B1"}

EndNozzles == {"None", "A1", "D1", "H1", "D2"}

FrontRightNozzles == {"None", "D1", "H12"}

BackLeftNozzles == {"None", "A1"}

TipRacks == {<<>>, <<"tiprack">>}

\* the tracker once a tip from well 1 is attached
TrackerWithTip ==
    Apply(InitialTracker,
          Success_state_update(MoveSuccess_state_update(1),
                               ResolvedGeometry(0), {1}))

LayoutInit ==
    /\ tracker \in {InitialTracker, TrackerWithTip}
    /\ hw = InitialHw
    /\ \E channels \in {1, 8, 96}, api_version \in ApiVersions :
           pipette = [channels |-> channels,
                      nozzle_map |-> FullNozzleMap(channels),
                      api_version |-> api_version, tip_racks |-> <<>>]
    /\ robot = "OT-3 Standard"
    /\ pc = "idle"
    /\ cmd = NoCommand
    /\ steps = <<>>
    /\ result = NoResult
    /\ pre = [tracker |-> InitialTracker, hw |-> InitialHw]

\* the engine asks its tip handler whether the layout is available
AvailableForNozzleLayout(handler, style, primary_nozzle, front_right_nozzle, back_left_nozzle) ==
    /\ pc = "idle"
    /\ cmd = NoCommand
    /\ cmd' = [command |-> "available_for_nozzle_layout",
               handler |-> handler, style |-> style,
               primary_nozzle |-> primary_nozzle,
               front_right_nozzle |-> front_right_nozzle,
               back_left_nozzle |-> back_left_nozzle, before |-> pipette]
    /\ result' = available_for_nozzle_layout(
                     handler, tracker, pipette.channels, style,
                     primary_nozzle, front_right_nozzle, back_left_nozzle)
    /\ steps' = <<"available_for_nozzle_layout">>
    /\ UNCHANGED <<tracker, hw, pipette, robot, pc, pre>>

\* self._core.configure_nozzle_layout: the engine resolves the layout with
\* its handler and replaces the pipette's nozzle map, or raises
core_configure_nozzle_layout(handler, t, channels, args) ==
    LET nozzles == available_for_nozzle_layout(
                       handler, t, channels, args.style, args.primary_nozzle,
                       args.front_right_nozzle, args.back_left_nozzle)
        nozzle_map == update_nozzle_configuration(channels, nozzles)
    IN  IF nozzles.error # NoError
        THEN [error |-> nozzles.error, nozzles |-> nozzles,
              nozzle_map |-> NoNozzleMap]
        ELSE IF nozzle_map = NoNozzleMap
        THEN [error |-> Error("IncompatibleNozzleConfiguration", ""),
              nozzles |-> nozzles, nozzle_map |-> NoNozzleMap]
        ELSE [error |-> NoError, nozzles |-> nozzles,
              nozzle_map |-> nozzle_map]

\* configure_nozzle_layout that keeps the previous tip racks when none are
\* given
Mutant_ConfigureNozzleLayout(style, start, end, front_right, back_left, tip_racks) ==
    /\ pc = "idle"
    /\ cmd = NoCommand
    /\ cmd' = [command |-> "configure_nozzle_layout", style |-> style,
               start |-> start, end |-> end, front_right |-> front_right,
               back_left |-> back_left, tip_racks |-> tip_racks,
               before |-> pipette]
    /\ LET args == configure_nozzle_layout_args(
                       pipette.api_version, pipette.channels, style, start,
                       end, front_right, back_left)
       IN  IF args.error # NoError
           THEN /\ result' = [error |-> args.error, core_called |-> FALSE,
                              core |-> args]
                /\ steps' = <<>>
                /\ UNCHANGED pipette
           ELSE \E handler \in Handlers :
                  LET done == core_configure_nozzle_layout(
                                  handler, tracker, pipette.channels, args)
                  IN  /\ result' = [error |-> done.error,
                                    core_called |-> TRUE, core |-> args]
                      /\ steps' = <<"core.configure_nozzle_layout">>
                      /\ pipette' =
                             IF done.error # NoError THEN pipette
                             ELSE [pipette EXCEPT
                                       !.nozzle_map = done.nozzle_map,
                                       !.tip_racks = IF tip_racks = <<>>
                                                     THEN pipette.tip_racks
                                                     ELSE tip_racks]
    /\ UNCHANGED <<tracker, hw, robot, pc, pre>>

\* InstrumentContext.configure_nozzle_layout
ConfigureNozzleLayout(style, start, end, front_right, back_left, tip_racks) ==
    /\ pc = "idle"
    /\ cmd = NoCommand
    /\ cmd' = [command |-> "configure_nozzle_layout", style |-> style,
               start |-> start, end |-> end, front_right |-> front_right,
               back_left |-> back_left, tip_racks |-> tip_racks,
               before |-> pipette]
    /\ LET args == configure_nozzle_layout_args(
                       pipette.api_version, pipette.channels, style, start,
                       end, front_right, back_left)
       IN  IF args.error # NoError
           THEN /\ result' = [error |-> args.error, core_called |-> FALSE,
                              core |-> args]
                /\ steps' = <<>>
                /\ UNCHANGED pipette
           ELSE \E handler \in Handlers :
                  LET done == core_configure_nozzle_layout(
                                  handler, tracker, pipette.channels, args)
                  IN  /\ result' = [error |-> done.error,
                                    core_called |-> TRUE, core |-> args]
                      /\ steps' = <<"core.configure_nozzle_layout">>
                      /\ pipette' =
                             IF done.error # NoError THEN pipette
                             ELSE [pipette EXCEPT
                                       !.nozzle_map = done.nozzle_map,
                                       !.tip_racks = tip_racks]
    /\ UNCHANGED <<tracker, hw, robot, pc, pre>>

\* the call is over and its caller goes on to the next one
CallReturned ==
    /\ pc = "idle"
    /\ cmd # NoCommand
    /\ cmd' = NoCommand
    /\ result' = NoResult
    /\ steps' = <<>>
    /\ UNCHANGED <<tracker, hw, pipette, robot, pc, pre>>

LayoutNext ==
    \/ /\ cmd = NoCommand
       /\ \E handler \in Handlers, style \in Styles,
             primary_nozzle \in PrimaryNozzles,
             front_right_nozzle \in FrontRightNozzles,
             back_left_nozzle \in BackLeftNozzles :
              AvailableForNozzleLayout(handler, style, primary_nozzle,
                                       front_right_nozzle, back_left_nozzle)
    \/ /\ cmd = NoCommand
       /\ \E style \in Styles, start \in PrimaryNozzles,
             end \in EndNozzles, front_right \in {"None", "H12"},
             back_left \in BackLeftNozzles, tip_racks \in TipRacks :
              ConfigureNozzleLayout(style, start, end, front_right,
                                    back_left, tip_racks)
    \/ CallReturned

LayoutSpec == LayoutInit /\ [][LayoutNext]_vars

(***************************************************************************)
(* Claims about nozzle layout configuration, under LayoutSpec.             *)
(***************************************************************************)
\* the last call was the engine asking its handler, on a pipette without tip
ResolverCall ==
    /\ cmd.command = "available_for_nozzle_layout"
    /\ ~tracker.has_tip

\* the last call was InstrumentContext.configure_nozzle_layout
ApiCall == cmd.command = "configure_nozzle_layout"

\* C11: available_for_nozzle_layout of either handler, called while the
\* pipette has a tip attached, raises CommandPreconditionViolated for the
\* attached tip whatever the style, the hints and the channel count (the
\* check comes before every other one), and the pipette's nozzle map is as
\* it was before the call.
C11_TipAttachedPrecondition ==
    (cmd.command = "available_for_nozzle_layout" /\ tracker.has_tip) =>
        /\ result = NozzleError(PreconditionTipsAttached)
        /\ result.error.type = "CommandPreconditionViolated"
        /\ pipette = cmd.before

\* a single-channel pipette with a tip: the tip check wins over the channel
\* check, on the virtual handler
C11_Witness ==
    /\ cmd.command = "available_for_nozzle_layout"
    /\ tracker.has_tip
    /\ cmd.handler = "virtual"
    /\ pipette.channels = 1
    /\ cmd.style = "ALL"
    /\ result.error = PreconditionTipsAttached

\* C12: on a single-channel pipette the resolver fails with
\* CommandPreconditionViolated (the one about the channel count) for every
\* style, ALL included, and every combination of hints.
C12_SingleChannelNeverConfigurable ==
    (ResolverCall /\ pipette.channels = 1) =>
        /\ result.error.type = "CommandPreconditionViolated"
        /\ result = NozzleError(PreconditionOneChannel)

C12_Witness ==
    /\ ResolverCall
    /\ pipette.channels = 1
    /\ cmd.style = "ALL"
    /\ cmd.front_right_nozzle # "None"
    /\ result.error = PreconditionOneChannel

\* C13: the resolver fails with CommandParameterLimitViolated for style ROW
\* on an 8-channel pipette and for style PARTIAL_COLUMN on a 96-channel
\* pipette, whatever the hints.
C13_StyleChannelLimits ==
    (/\ ResolverCall
     /\ \/ cmd.style = "ROW" /\ pipette.channels = 8
        \/ cmd.style = "PARTIAL_COLUMN" /\ pipette.channels = 96) =>
        result.error.type = "CommandParameterLimitViolated"

\* the nozzle count a style stands for on a 96-channel pipette
ExpectedNozzles == [COLUMN |-> 8, ROW |-> 12, SINGLE |-> 1]

\* C14: on a 96-channel pipette, for each allowed primary nozzle given
\* alone, the resolver returns a layout whose rectangle from back_left to
\* front_right holds the primary and has 8 nozzles for COLUMN, 12 for ROW
\* and the one primary nozzle for SINGLE.
C14_PrimaryOnlyRectangle ==
    (/\ ResolverCall
     /\ pipette.channels = 96
     /\ cmd.style \in {"COLUMN", "ROW", "SINGLE"}
     /\ cmd.primary_nozzle \in ALLOWED_PRIMARY_NOZZLES
     /\ cmd.front_right_nozzle = "None"
     /\ cmd.back_left_nozzle = "None") =>
        /\ result.error = NoError
        /\ InRect(cmd.primary_nozzle, DictBackLeft(result),
                  DictFrontRight(result))
        /\ RectCount(DictBackLeft(result), DictFrontRight(result))
               = ExpectedNozzles[cmd.style]

\* a PARTIAL_COLUMN call whose start and end are in the same row, or whose
\* start is H1/H12 with end in row A, or A1/A12 with end in row H
BadPartialColumnPair ==
    /\ ApiCall
    /\ cmd.style = "PARTIAL_COLUMN"
    /\ cmd.start # "None"
    /\ cmd.end # "None"
    /\ \/ NozzleRow[cmd.start] = NozzleRow[cmd.end]
       \/ cmd.start \in {"H1", "H12"} /\ NozzleRow[cmd.end] = "A"
       \/ cmd.start \in {"A1", "A12"} /\ NozzleRow[cmd.end] = "H"

\* C15 as stated: every such call fails with a ValueError and the core's
\* configure_nozzle_layout is not called.
C15_BadPairIsValueError ==
    BadPartialColumnPair =>
        /\ result.error.type = "ValueError"
        /\ ~result.core_called

\* C15: every such call fails before the core's configure_nozzle_layout is
\* called and leaves the pipette as it was; the error is a ValueError on
\* API 2.20 and later, and an APIVersionError on earlier versions, where
\* the version check comes first.
C15_BadPairNeverReachesCore ==
    BadPartialColumnPair =>
        /\ ~result.core_called
        /\ steps = <<>>
        /\ pipette = cmd.before
        /\ result.error.type =
               IF pipette.api_version >= SINGLE_ROW_PARTIAL_COLUMN_ADDED_IN
               THEN "ValueError" ELSE "APIVersionError"

\* the end check itself rejects H12 with A1, and A1 with A1, on an
\* 8-channel pipette
C15_Witness ==
    /\ BadPartialColumnPair
    /\ pipette.channels = 8
    /\ \/ /\ cmd.start = "H12"
          /\ cmd.end = "A1"
          /\ result.error =
                 ValueError("cannot have its 'end' parameter be in row A")
       \/ /\ cmd.start = "A1"
          /\ cmd.end = "A1"
          /\ result.error = ValueError("cannot be in the same row")

\* C16: a PARTIAL_COLUMN call is accepted (passes to the core) only if end
\* is in the column of start and in another row.
C16_EndInStartColumn ==
    (ApiCall /\ cmd.style = "PARTIAL_COLUMN" /\ result.core_called) =>
        /\ NozzleColumn[cmd.end] = NozzleColumn[cmd.start]
        /\ NozzleRow[cmd.end] # NozzleRow[cmd.start]

\* the call configure_nozzle_layout(PARTIAL_COLUMN, start="A1", end="D1")
\* on an 8-channel pipette, on an API version that has the style
PartialColumnA1D1 ==
    /\ ApiCall
    /\ pipette.channels = 8
    /\ pipette.api_version >= SINGLE_ROW_PARTIAL_COLUMN_ADDED_IN
    /\ cmd.style = "PARTIAL_COLUMN"
    /\ cmd.start = "A1"
    /\ cmd.end = "D1"
    /\ cmd.front_right = "None"
    /\ cmd.back_left = "None"

\* C17 as stated: the core gets primary A1, front_right A1, back_left D1.
C17_CornersAsClaimed ==
    PartialColumnA1D1 =>
        /\ result.core_called
        /\ result.core.primary_nozzle = "A1"
        /\ result.core.front_right_nozzle = "A1"
        /\ result.core.back_left_nozzle = "D1"

\* C17: the core gets primary A1, front_right D1 (the end) and back_left A1
\* (the start), a rectangle of 4 nozzles.
C17_PartialColumnCorners ==
    PartialColumnA1D1 =>
        /\ result.core_called
        /\ result.core = CoreArgs("PARTIAL_COLUMN", "A1", "D1", "A1")
        /\ RectCount(result.core.back_left_nozzle,
                     result.core.front_right_nozzle) = 4

\* the call went through and the pipette has the four nozzles A1..D1
C17_Witness ==
    /\ PartialColumnA1D1
    /\ result.error = NoError
    /\ pipette.nozzle_map.tip_count = 4
    /\ pipette.nozzle_map.back_left = "A1"
    /\ pipette.nozzle_map.front_right = "D1"

\* a QUADRANT request the resolver gets to look at
QuadrantCall ==
    /\ ResolverCall
    /\ pipette.channels # 1
    /\ cmd.style = "QUADRANT"
    /\ cmd.primary_nozzle # "None"

\* C18 as stated: with exactly one corner the missing one is the primary;
\* with both or with neither the request is rejected.
C18_ExactlyOneCorner ==
    QuadrantCall =>
        IF (cmd.front_right_nozzle = "None") # (cmd.back_left_nozzle = "None")
        THEN /\ result.error = NoError
             /\ "None" \notin {result.front_right_nozzle,
                               result.back_left_nozzle}
             /\ cmd.primary_nozzle \in {result.front_right_nozzle,
                                        result.back_left_nozzle}
        ELSE result.error # NoError

\* C18: the resolver, given a primary nozzle, resolves a QUADRANT with
\* exactly one corner by setting the missing corner to the primary, returns
\* both corners as given when both are supplied, and fails with a KeyError
\* when neither is; InstrumentContext.configure_nozzle_layout rejects every
\* QUADRANT request with UnsupportedAPIError before the core is called.
C18_QuadrantCorners ==
    /\ QuadrantCall =>
           IF cmd.front_right_nozzle # "None" /\ cmd.back_left_nozzle = "None"
           THEN result = NozzleDict(cmd.primary_nozzle,
                                    cmd.front_right_nozzle,
                                    cmd.primary_nozzle)
           ELSE IF cmd.front_right_nozzle = "None"
                   /\ cmd.back_left_nozzle # "None"
           THEN result = NozzleDict(cmd.primary_nozzle, cmd.primary_nozzle,
                                    cmd.back_left_nozzle)
           ELSE IF cmd.front_right_nozzle # "None"
           THEN result = NozzleDict(cmd.primary_nozzle,
                                    cmd.front_right_nozzle,
                                    cmd.back_left_nozzle)
           ELSE result = NozzleError(KeyError)
    /\ (ApiCall /\ cmd.style = "QUADRANT") =>
           /\ result.error.type = "UnsupportedAPIError"
           /\ ~result.core_called
           /\ pipette = cmd.before

\* one corner given on a 96-channel pipette: the other one is the primary
C18_Witness ==
    /\ QuadrantCall
    /\ pipette.channels = 96
    /\ cmd.primary_nozzle = "A1"
    /\ cmd.front_right_nozzle = "D1"
    /\ cmd.back_left_nozzle = "None"
    /\ result = NozzleDict("A1", "D1", "A1")

\* C19: on a multi-channel pipette and for a style other than ALL, a
\* front_right or back_left hint given without a primary nozzle is not
\* discarded: the resolver does not answer it with the default primary A1
\* alone.
C19_HintsKept ==
    (/\ ResolverCall
     /\ pipette.channels # 1
     /\ cmd.style # "ALL"
     /\ cmd.primary_nozzle = "None"
     /\ result.error = NoError) =>
        /\ cmd.front_right_nozzle # "None" =>
               result.front_right_nozzle = cmd.front_right_nozzle
        /\ cmd.back_left_nozzle # "None" =>
               result.back_left_nozzle = cmd.back_left_nozzle

\* a start nozzle that is given and is not one of A1, H1, A12, H12
BadStart(nozzle) == nozzle \notin ALLOWED_PRIMARY_NOZZLES \cup {"None"}

\* C20 as stated, for both ways into configuration: the API method fails
\* with a ValueError without calling the core, and the resolver produces
\* no layout.
C20_BadPrimaryFails ==
    /\ (ApiCall /\ cmd.style # "ALL" /\ BadStart(cmd.start)) =>
           /\ result.error.type = "ValueError"
           /\ ~result.core_called
    /\ (/\ ResolverCall
        /\ pipette.channels # 1
        /\ cmd.style # "ALL"
        /\ BadStart(cmd.primary_nozzle)) => result.error # NoError

\* C20: through InstrumentContext.configure_nozzle_layout, for every style
\* other than ALL, such a start nozzle makes the call fail before the core
\* is called, the pipette staying as it was: with UnsupportedAPIError for
\* QUADRANT, with APIVersionError for a style other than COLUMN before API
\* 2.20, and with ValueError otherwise.
C20_BadStartNeverReachesCore ==
    (ApiCall /\ cmd.style # "ALL" /\ BadStart(cmd.start)) =>
        /\ ~result.core_called
        /\ steps = <<>>
        /\ pipette = cmd.before
        /\ result.error.type =
               IF cmd.style = "QUADRANT" THEN "UnsupportedAPIError"
               ELSE IF /\ pipette.api_version
                              < SINGLE_ROW_PARTIAL_COLUMN_ADDED_IN
                       /\ cmd.style # "COLUMN"
               THEN "APIVersionError"
               ELSE "ValueError"

\* the start check itself rejects B1 for a SINGLE layout
C20_Witness ==
    /\ ApiCall
    /\ cmd.style = "SINGLE"
    /\ cmd.start = "B1"
    /\ pipette.channels = 96
    /\ result.error = ValueError("starting nozzle is not one of the allowed")

HandlerPipettes ==
    Pipettes \cup
    { [channels |-> 8,  nozzle_map |-> NozzleMap("COLUMN", 4, "A1", "D1")],
      [channels |-> 8,  nozzle_map |-> NozzleMap("COLUMN", 2, "A1", "B1")],
      [channels |-> 96, nozzle_map |-> NozzleMap("ROW", 12, "A1", "A12")],
      [channels |-> 96, nozzle_map |-> NozzleMap("SUBRECT", 80, "A3", "H12")],
      [channels |-> 96, nozzle_map |-> NozzleMap("COLUMN", 8, "A3", "H3")],
      [channels |-> 96, nozzle_map |-> NozzleMap("SUBRECT", 2, "A1", "B1")] }

\* the await of pick_up_tip that raises something of its own or is cancelled
PickUpFaults == {"none", "tip_pickup_moves", "verify_tip_presence", "prepare_for_aspirate"}

\* the statuses a caller may expect
TipPresenceStatus == {"PRESENT", "ABSENT", "UNKNOWN"}

\* a handler method returned value
HandlerReturned(value) == [kind |-> "returned", error |-> "none", value |-> value]

\* a handler method raised exception (carrying value, if any)
HandlerRaised(exception, value) == [kind |-> "raised", error |-> exception, value |-> value]

\* pick_up_tip that checks the presence whenever the configuration supports it
Mutant_pick_up_tip_verified(p, do_not_ignore_tip_presence) ==
    get_tip_presence_config(p)[1]

\* pick_up_tip: the condition under which verify_tip_presence is awaited
pick_up_tip_verified(p, do_not_ignore_tip_presence) ==
    do_not_ignore_tip_presence /\ get_tip_presence_config(p)[1]

\* HardwareTipHandler.pick_up_tip: the hardware cache it leaves, the calls it
\* made in order, and what it returned or raised
HardwareTipHandler_pick_up_tip(h, p, rob, do_not_ignore_tip_presence, calibrated_tip_length, sensed, fault) ==
    LET tip_geometry == ResolvedGeometry(calibrated_tip_length)
        verified == pick_up_tip_verified(p, do_not_ignore_tip_presence)
        follow_singular_sensor == get_tip_presence_config(p)[2]
        sensor == IF rob = "OT-3 Standard" THEN <<"ot3api.verify_tip_presence">> ELSE <<>>
        moved == <<"tip_pickup_moves">>
        checked == IF verified THEN moved \o <<"verify_tip_presence">> \o sensor ELSE moved
    IN  IF fault = "tip_pickup_moves"
        THEN [hw |-> h, steps |-> moved,
              result |-> HandlerRaised("PickupMotionFailed", "None")]
        ELSE IF verified /\ rob = "OT-3 Standard" /\ fault = "verify_tip_presence"
        THEN [hw |-> h, steps |-> checked,
              result |-> HandlerRaised("SensingFailed", "None")]
        ELSE IF verified /\ verify_tip_presence(rob, "PRESENT", sensed) = "TipNotAttachedError"
        THEN [hw |-> h, steps |-> checked,
              result |-> HandlerRaised("PickUpTipTipNotAttachedError", tip_geometry)]
        ELSE IF fault = "prepare_for_aspirate"
        THEN [hw |-> cache_tip(h, tip_geometry),
              steps |-> checked \o <<"cache_tip", "prepare_for_aspirate">>,
              result |-> HandlerRaised("PrepareForAspirateFailed", "None")]
        ELSE [hw |-> cache_tip(h, tip_geometry),
              steps |-> checked \o <<"cache_tip", "prepare_for_aspirate">>,
              result |-> HandlerReturned(tip_geometry)]

\* HardwareTipHandler.get_tip_presence: the status it returns
HardwareTipHandler_get_tip_presence(rob, sensed) ==
    IF rob # "OT-3 Standard" THEN HandlerReturned("UNKNOWN")
    ELSE HandlerReturned(sensed)

\* VirtualTipHandler.get_tip_presence
VirtualTipHandler_get_tip_presence ==
    HandlerRaised("RuntimeError", "Do not call VirtualTipHandler.get_tip_presence")

\* HardwareTipHandler.verify_tip_presence as a call: None, or what it raises
HardwareTipHandler_verify_tip_presence(rob, expected, sensed) ==
    LET outcome == verify_tip_presence(rob, expected, sensed)
    IN  IF outcome = "ok" THEN HandlerReturned("None")
        ELSE HandlerRaised(outcome, "None")

\* VirtualTipHandler.verify_tip_presence: a body of its docstring only
VirtualTipHandler_verify_tip_presence(expected) == HandlerReturned("None")

HandlerInit ==
    /\ tracker \in {InitialTracker, TrackerWithTip}
    /\ hw = InitialHw
    /\ pipette \in HandlerPipettes
    /\ robot \in {"OT-3 Standard", "OT-2 Standard"}
    /\ robot = "OT-2 Standard" => pipette.channels # 96
    /\ pc = "idle"
    /\ cmd = NoCommand
    /\ steps = <<>>
    /\ result = NoResult
    /\ pre = [tracker |-> InitialTracker, hw |-> InitialHw]

\* a caller awaits HardwareTipHandler.pick_up_tip(...)
PickUpTipCall(do_not_ignore_tip_presence, calibrated_tip_length, sensed, fault) ==
    LET call == HardwareTipHandler_pick_up_tip(hw, pipette, robot,
                    do_not_ignore_tip_presence, calibrated_tip_length, sensed, fault)
    IN  /\ pc = "idle"
        /\ cmd' = [command |-> "pick_up_tip", handler |-> "hardware",
                   do_not_ignore_tip_presence |-> do_not_ignore_tip_presence,
                   tip_geometry |-> ResolvedGeometry(calibrated_tip_length),
                   expected |-> "PRESENT", sensed |-> sensed, fault |-> fault]
        /\ hw' = call.hw
        /\ steps' = call.steps
        /\ result' = call.result
        /\ UNCHANGED <<tracker, pipette, robot, pc, pre>>

\* a caller reads HardwareTipHandler.get_tip_presence_config(pipette_id)
GetTipPresenceConfigCall ==
    /\ pc = "idle"
    /\ cmd' = [command |-> "get_tip_presence_config", handler |-> "hardware",
               do_not_ignore_tip_presence |-> FALSE, tip_geometry |-> NoTipGeometry,
               expected |-> "None", sensed |-> "None", fault |-> "none"]
    /\ steps' = <<>>
    /\ result' = HandlerReturned(get_tip_presence_config(pipette))
    /\ UNCHANGED <<tracker, hw, pipette, robot, pc, pre>>

\* a caller awaits verify_tip_presence(pipette_id, expected) of its handler
VerifyTipPresenceCall(handler, expected, sensed) ==
    /\ pc = "idle"
    /\ cmd' = [command |-> "verify_tip_presence", handler |-> handler,
               do_not_ignore_tip_presence |-> FALSE, tip_geometry |-> NoTipGeometry,
               expected |-> expected, sensed |-> sensed, fault |-> "none"]
    /\ steps' = IF handler = "hardware" /\ robot = "OT-3 Standard"
                THEN <<"ot3api.verify_tip_presence">> ELSE <<>>
    /\ result' = IF handler = "hardware"
                 THEN HardwareTipHandler_verify_tip_presence(robot, expected, sensed)
                 ELSE VirtualTipHandler_verify_tip_presence(expected)
    /\ UNCHANGED <<tracker, hw, pipette, robot, pc, pre>>

\* a caller awaits get_tip_presence(pipette_id) of its handler
GetTipPresenceCall(handler, sensed) ==
    /\ pc = "idle"
    /\ cmd' = [command |-> "get_tip_presence", handler |-> handler,
               do_not_ignore_tip_presence |-> FALSE, tip_geometry |-> NoTipGeometry,
               expected |-> "None", sensed |-> sensed, fault |-> "none"]
    /\ steps' = IF handler = "hardware" /\ robot = "OT-3 Standard"
                THEN <<"ot3api.get_tip_presence_status">> ELSE <<>>
    /\ result' = IF handler = "hardware"
                 THEN HardwareTipHandler_get_tip_presence(robot, sensed)
                 ELSE VirtualTipHandler_get_tip_presence
    /\ UNCHANGED <<tracker, hw, pipette, robot, pc, pre>>

HandlerNext ==
    \/ /\ cmd = NoCommand
       /\ \E do_not_ignore_tip_presence \in BOOLEAN,
             calibrated_tip_length \in {0, CalibratedLength},
             sensed \in SensorReadings, fault \in PickUpFaults :
                PickUpTipCall(do_not_ignore_tip_presence, calibrated_tip_length,
                              sensed, fault)
    \/ /\ cmd = NoCommand
       /\ GetTipPresenceConfigCall
    \/ /\ cmd = NoCommand
       /\ \E handler \in Handlers, expected \in TipPresenceStatus,
             sensed \in SensorReadings :
                VerifyTipPresenceCall(handler, expected, sensed)
    \/ /\ cmd = NoCommand
       /\ \E handler \in Handlers, sensed \in SensorReadings :
                GetTipPresenceCall(handler, sensed)
    \/ CallReturned

HandlerSpec == HandlerInit /\ [][HandlerNext]_vars

\* PipetteView.validate_tip_state(pipette_id, expected_has_tip): raises when
\* the tracked tip state is not the expected one
validate_tip_state(t, expected_has_tip) ==
    IF expected_has_tip /\ ~t.has_tip
    THEN HandlerRaised("TipNotAttachedError", "None")
    ELSE IF ~expected_has_tip /\ t.has_tip
    THEN HandlerRaised("TipAttachedError", "None")
    ELSE HandlerReturned("None")

\* VirtualTipHandler.pick_up_tip: the nominal geometry, unless a tip is tracked
VirtualTipHandler_pick_up_tip(t) ==
    IF validate_tip_state(t, FALSE).kind = "raised"
    THEN validate_tip_state(t, FALSE)
    ELSE HandlerReturned(ResolvedGeometry(0))

\* VirtualTipHandler.drop_tip: None, unless no tip is tracked
VirtualTipHandler_drop_tip(t) == validate_tip_state(t, TRUE)

(***************************************************************************)
(* Properties of the tip handlers' presence checks.                        *)
(***************************************************************************)
\* the last call was HardwareTipHandler.pick_up_tip
PickUpTipCalled == cmd # NoCommand /\ cmd.command = "pick_up_tip"

\* the last call was get_tip_presence_config
ConfigCalled == cmd # NoCommand /\ cmd.command = "get_tip_presence_config"

\* the call asked for the presence check or read the sensor
SensorQueried ==
    \E i \in 1..Len(steps) :
        steps[i] \in {"verify_tip_presence", "ot3api.verify_tip_presence"}

\* C21: when do_not_ignore_tip_presence is False, or the nozzle configuration
\* does not support sensing, HardwareTipHandler.pick_up_tip makes no presence
\* check and never raises PickUpTipTipNotAttachedError; once the pickup
\* motion has returned it caches the tip with the resolved geometry, and the
\* geometry it returns (it returns unless prepare_for_aspirate itself
\* raises) is the resolved one
C21_SkippedVerificationCommits ==
    (/\ PickUpTipCalled
     /\ \/ ~cmd.do_not_ignore_tip_presence
        \/ ~get_tip_presence_config(pipette)[1])
    => /\ ~SensorQueried
       /\ result.error # "PickUpTipTipNotAttachedError"
       /\ cmd.fault # "tip_pickup_moves" =>
            /\ hw = [tip_length |-> cmd.tip_geometry.length,
                     tiprack_diameter |-> cmd.tip_geometry.diameter,
                     working_volume |-> cmd.tip_geometry.volume]
            /\ steps = <<"tip_pickup_moves", "cache_tip", "prepare_for_aspirate">>
       /\ cmd.fault \notin {"tip_pickup_moves", "prepare_for_aspirate"} =>
            result = HandlerReturned(cmd.tip_geometry)
       /\ result.kind = "returned" => result.value = cmd.tip_geometry

\* a pickup with do_not_ignore_tip_presence False on a configuration that
\* supports sensing, with the sensor reading ABSENT: the tip is cached and
\* the geometry returned
C21_Witness ==
    /\ PickUpTipCalled
    /\ ~cmd.do_not_ignore_tip_presence
    /\ get_tip_presence_config(pipette)[1]
    /\ robot = "OT-3 Standard"
    /\ cmd.sensed = "ABSENT"
    /\ cmd.tip_geometry.length = CalibratedLength
    /\ result = HandlerReturned(cmd.tip_geometry)
    /\ hw.tip_length = CalibratedLength

\* the pipettes the claim names: single-channel with fewer than 4 active
\* nozzles, 96-channel in a SINGLE layout or with fewer than 4 active nozzles
ClaimedUnsupported(p) ==
    \/ /\ p.channels = 1
       /\ p.nozzle_map.tip_count < 4
    \/ /\ p.channels = 96
       /\ \/ p.nozzle_map.configuration = "SINGLE"
          \/ p.nozzle_map.tip_count < 4

\* the pipettes get_tip_presence_config reports as unsupported: 8-channel
\* with fewer than 4 active nozzles, 96-channel SINGLE or fewer than 4
NoSensing(p) ==
    \/ /\ p.channels = 8
       /\ p.nozzle_map.tip_count < 4
    \/ /\ p.channels = 96
       /\ \/ p.nozzle_map.configuration = "SINGLE"
          \/ p.nozzle_map.tip_count < 4

\* C22 as stated: get_tip_presence_config reports sensing as unsupported for
\* a single-channel pipette with fewer than 4 active nozzles and for a
\* 96-channel pipette in a SINGLE layout or with fewer than 4 active nozzles
C22_UnsupportedAsClaimed ==
    (ConfigCalled /\ ClaimedUnsupported(pipette)) => result.value[1] = FALSE

\* C22: get_tip_presence_config reports sensing as unsupported for an
\* 8-channel pipette with fewer than 4 active nozzles and for a 96-channel
\* pipette in a SINGLE layout or with fewer than 4 active nozzles, and a
\* pickup on such a pipette makes no presence check and never raises
\* PickUpTipTipNotAttachedError; for a single-channel pipette sensing is
\* always reported as supported
C22_UnsupportedConfigurations ==
    /\ ConfigCalled =>
          /\ NoSensing(pipette) => result.value[1] = FALSE
          /\ pipette.channels = 1 => result.value[1] = TRUE
    /\ (PickUpTipCalled /\ NoSensing(pipette)) =>
          /\ ~SensorQueried
          /\ result.error # "PickUpTipTipNotAttachedError"

\* an 8-channel pipette with 2 active nozzles on a Flex picks up with the
\* check asked for and the sensor reading ABSENT: the geometry is returned
C22_Witness ==
    /\ PickUpTipCalled
    /\ pipette.channels = 8
    /\ pipette.nozzle_map.tip_count = 2
    /\ robot = "OT-3 Standard"
    /\ cmd.do_not_ignore_tip_presence
    /\ cmd.sensed = "ABSENT"
    /\ result = HandlerReturned(cmd.tip_geometry)

\* C23: for a 96-channel pipette with a supported non-FULL nozzle map,
\* follow_singular_sensor is None when back_left is in column 1 and
\* front_right in column 12, PRIMARY when only back_left is in column 1, and
\* SECONDARY when only front_right is in column 12
C23_SingularSensor ==
    (/\ ConfigCalled
     /\ pipette.channels = 96
     /\ pipette.nozzle_map.configuration # "FULL"
     /\ result.value[1])
    => LET left == NozzleColumn[pipette.nozzle_map.back_left] = 1
           right == NozzleColumn[pipette.nozzle_map.front_right] = 12
       IN  /\ (left /\ right) => result.value[2] = "None"
           /\ (left /\ ~right) => result.value[2] = "PRIMARY"
           /\ (~left /\ right) => result.value[2] = "SECONDARY"

\* a 96-channel map from column 3 to column 12 follows the SECONDARY sensor
C23_Witness ==
    /\ ConfigCalled
    /\ pipette.channels = 96
    /\ NozzleColumn[pipette.nozzle_map.back_left] = 3
    /\ NozzleColumn[pipette.nozzle_map.front_right] = 12
    /\ result.value = <<TRUE, "SECONDARY">>

\* C25: with a virtual pipette get_tip_presence returns UNKNOWN and never
\* raises, and verify_tip_presence returns without error for every expected
\* status
C25_VirtualPresenceUnknown ==
    (cmd # NoCommand /\ cmd.handler = "virtual") =>
        /\ cmd.command = "get_tip_presence" => result = HandlerReturned("UNKNOWN")
        /\ cmd.command = "verify_tip_presence" => result.kind = "returned"

\* C26: HardwareTipHandler.verify_tip_presence raises TipNotAttachedError
\* exactly when expected is PRESENT and the hardware check fails, and
\* TipAttachedError exactly when expected is ABSENT and the hardware check
\* fails; on a robot without presence sensing it returns without error and
\* get_tip_presence returns UNKNOWN
C26_VerifyRaisesOnMismatch ==
    (cmd # NoCommand /\ cmd.handler = "hardware") =>
        /\ cmd.command = "verify_tip_presence" =>
            LET failed == HardwareCheck(robot, cmd.expected, cmd.sensed)
                              = "FailedTipStateCheck"
            IN  /\ result.error = "TipNotAttachedError"
                      <=> (cmd.expected = "PRESENT" /\ failed)
                /\ result.error = "TipAttachedError"
                      <=> (cmd.expected = "ABSENT" /\ failed)
                /\ robot # "OT-3 Standard" => result = HandlerReturned("None")
        /\ (cmd.command = "get_tip_presence" /\ robot # "OT-3 Standard") =>
                result = HandlerReturned("UNKNOWN")

\* the check for ABSENT on a Flex whose sensor reads PRESENT
C26_Witness ==
    /\ cmd # NoCommand
    /\ cmd.command = "verify_tip_presence"
    /\ cmd.handler = "hardware"
    /\ robot = "OT-3 Standard"
    /\ cmd.expected = "ABSENT"
    /\ cmd.sensed = "PRESENT"
    /\ result = HandlerRaised("TipAttachedError", "None")

\* C24: drop_tip on a pipette whose nozzle configuration does not support
\* sensing (8-channel with fewer than 4 active nozzles, 96-channel SINGLE or
\* fewer than 4) never raises TipAttachedError
C24_UnsupportedDropNeverRaises ==
    (cmd.command = "dropTip" /\ NoSensing(pipette)) =>
        result.error # "TipAttachedError"

(***************************************************************************)
(* InstrumentContext.pick_up_tip, drop_tip and return_tip: the well of the *)
(* last tip picked up.  Wells are numbered; Python's None is 0 for a well  *)
(* and "None" for any other argument.  The API version 2.n is n.           *)
(***************************************************************************)
_PREP_AFTER_ADDED_IN == 13

_PRESSES_INCREMENT_REMOVED_IN == 14

_DROP_TIP_LOCATION_ALTERNATING_ADDED_IN == 15

_PARTIAL_NOZZLE_CONFIGURATION_ADDED_IN == 16

_PARTIAL_NOZZLE_CONFIGURATION_AUTOMATIC_TIP_TRACKING_IN == 18

_DISPOSAL_LOCATION_OFFSET_ADDED_IN == 18

\* the API versions a protocol may ask for
ContextApiVersions == {12, 17, 18}

\* a location argument: None, a Well, a Labware (the tip rack), a Location
\* on a well (well > 0) or on the labware itself (well = 0), a Location on
\* the deck, or a TrashBin / WasteChute
Location(kind, well) == [kind |-> kind, well |-> well]

Locations ==
    {Location("None", 0), Location("Labware", 0), Location("DeckLocation", 0),
     Location("TrashBin", 0)}
    \cup {Location("Well", w) : w \in Wells}
    \cup {Location("Location", w) : w \in 0..RackWells}

\* labware.next_available_tip: the first well of the rack, from starting_tip
\* on, whose tip has not been used; 0 when the rack has none left
next_available_tip(starting_tip, tips_used) ==
    LET free == {w \in Wells : w >= starting_tip /\ w \notin tips_used}
    IN  IF free = {} THEN 0
        ELSE CHOOSE w \in free : \A v \in free : w <= v

\* pick_up_tip that selects the next tip whatever the configuration
Mutant_raise_if_partial_with_starting_tip(api_version, configuration, starting_tip) == NoError

\* pick_up_tip with no location: the check of the nozzle map (read from API
\* version 2.18 on) against starting_tip
_raise_if_partial_with_starting_tip(api_version, configuration, starting_tip) ==
    LET nozzle_map_is_not_None ==
            api_version >= _PARTIAL_NOZZLE_CONFIGURATION_AUTOMATIC_TIP_TRACKING_IN
    IN  IF /\ nozzle_map_is_not_None
           /\ configuration # "FULL"
           /\ starting_tip # 0
        THEN Error("CommandPreconditionViolated",
                   "Automatic tip tracking is not available when using a partial pipette nozzle configuration and InstrumentContext.starting_tip.")
        ELSE NoError

\* what an API method raised (NoError: it returned) and the well it resolved
ApiResult(error, well) == [error |-> error, well |-> well]

\* the rack's next tip, or OutOfTipsError
NextTipOrError(starting_tip, tips_used) ==
    IF next_available_tip(starting_tip, tips_used) = 0
    THEN ApiResult(Error("OutOfTipsError", ""), 0)
    ELSE ApiResult(NoError, next_available_tip(starting_tip, tips_used))

\* InstrumentContext.pick_up_tip up to the call of the core
pick_up_tip_select(p, tips_used, location, presses, increment, prep_after, is_tip_tracking_available) ==
    IF presses # "None" /\ p.api_version >= _PRESSES_INCREMENT_REMOVED_IN
    THEN ApiResult(Error("UnsupportedAPIError", "presses"), 0)
    ELSE IF increment # "None" /\ p.api_version >= _PRESSES_INCREMENT_REMOVED_IN
    THEN ApiResult(Error("UnsupportedAPIError", "increment"), 0)
    ELSE IF prep_after # "None" /\ p.api_version < _PREP_AFTER_ADDED_IN
    THEN ApiResult(Error("APIVersionError", "prep_after"), 0)
    ELSE CASE location.kind = "None" ->
                IF _raise_if_partial_with_starting_tip(p.api_version,
                        p.nozzle_map.configuration, p.starting_tip) # NoError
                THEN ApiResult(_raise_if_partial_with_starting_tip(p.api_version,
                        p.nozzle_map.configuration, p.starting_tip), 0)
                ELSE IF ~is_tip_tracking_available
                THEN ApiResult(Error("CommandPreconditionViolated",
                        "Automatic tip tracking is not available for the current pipette nozzle configuration."), 0)
                ELSE NextTipOrError(p.starting_tip, tips_used)
           [] location.kind = "Well" -> ApiResult(NoError, location.well)
           [] location.kind = "Labware" -> NextTipOrError(0, tips_used)
           [] location.kind = "Location" ->
                IF location.well # 0 THEN ApiResult(NoError, location.well)
                ELSE NextTipOrError(0, tips_used)
           [] location.kind = "DeckLocation" ->
                ApiResult(Error("TypeError", "location should refer to a Labware or Well location"), 0)
           [] OTHER ->
                ApiResult(Error("TypeError", "location should be an instance of types.Location, Labware or Well"), 0)

\* a call the context made on its core
CoreCall(method, well, alternate_drop_location) ==
    [method |-> method, well |-> well, alternate_drop_location |-> alternate_drop_location]

\* InstrumentContext.drop_tip up to the call of the core: the error, or the
\* core call it makes
drop_tip_select(p, location) ==
    CASE location.kind = "None" ->
            IF p.trash = "Labware"
            THEN CoreCall("drop_tip", 0,
                          p.api_version >= _DROP_TIP_LOCATION_ALTERNATING_ADDED_IN)
            ELSE CoreCall("drop_tip_in_disposal_location", 0, TRUE)
      [] location.kind = "Well" -> CoreCall("drop_tip", location.well, FALSE)
      [] location.kind = "Location" ->
            IF location.well = 0 THEN CoreCall("TypeError", 0, FALSE)
            ELSE CoreCall("drop_tip", location.well, FALSE)
      [] location.kind = "TrashBin" ->
            CoreCall("drop_tip_in_disposal_location", 0,
                     p.api_version < _DISPOSAL_LOCATION_OFFSET_ADDED_IN)
      [] OTHER -> CoreCall("TypeError", 0, FALSE)

ContextInit ==
    /\ tracker = InitialTracker
    /\ hw = InitialHw
    /\ \E api_version \in ContextApiVersions,
          configuration \in {"FULL", "COLUMN"}, trash \in {"Labware", "TrashBin"} :
          /\ api_version < _PARTIAL_NOZZLE_CONFIGURATION_ADDED_IN => configuration = "FULL"
          /\ pipette = [channels |-> 96,
                        nozzle_map |-> IF configuration = "FULL"
                                       THEN NozzleMap("FULL", 96, "A1", "H12")
                                       ELSE NozzleMap("COLUMN", 8, "A1", "H1"),
                        api_version |-> api_version, trash |-> trash,
                        starting_tip |-> 0, last_tip_picked_up_from |-> 0]
    /\ robot = "OT-3 Standard"
    /\ pc = "idle"
    /\ cmd = NoCommand
    /\ steps = <<>>
    /\ result = NoResult
    /\ pre = [tracker |-> InitialTracker, hw |-> InitialHw]

\* the starting_tip setter
SetStartingTip(location) ==
    /\ pc = "idle"
    /\ pipette.starting_tip # location
    /\ pipette' = [pipette EXCEPT !.starting_tip = location]
    /\ UNCHANGED <<tracker, hw, robot, pc, cmd, steps, result, pre>>

\* InstrumentContext.pick_up_tip(location, presses, increment, prep_after);
\* core_raises: self._core.pick_up_tip raised
ContextPickUpTip(location, presses, increment, prep_after, is_tip_tracking_available, core_raises) ==
    LET selected == pick_up_tip_select(pipette, tracker.tips_used, location,
                        presses, increment, prep_after, is_tip_tracking_available)
        succeeded == selected.error = NoError /\ ~core_raises
    IN  /\ pc = "idle"
        /\ cmd' = [command |-> "InstrumentContext.pick_up_tip", location |-> location,
                   presses |-> presses, increment |-> increment,
                   is_tip_tracking_available |-> is_tip_tracking_available,
                   before |-> pipette]
        /\ steps' = IF selected.error = NoError
                    THEN <<CoreCall("pick_up_tip", selected.well, FALSE)>> ELSE <<>>
        /\ result' = IF selected.error = NoError /\ core_raises
                     THEN ApiResult(Error("CoreRaised", "pick_up_tip"), selected.well)
                     ELSE ApiResult(selected.error, selected.well)
        /\ pipette' = IF succeeded
                      THEN [pipette EXCEPT !.last_tip_picked_up_from = selected.well]
                      ELSE pipette
        /\ tracker' = IF succeeded
                      THEN Apply(tracker,
                             Success_state_update(MoveSuccess_state_update(selected.well),
                                 ResolvedGeometry(0),
                                 compute_tips_to_mark_as_used(selected.well,
                                                              pipette.nozzle_map)))
                      ELSE tracker
        /\ UNCHANGED <<hw, robot, pc, pre>>

\* InstrumentContext.drop_tip(location) as called by command, which is
\* "InstrumentContext.drop_tip" or, from return_tip, "InstrumentContext.return_tip"
ContextDropTip(command, location, core_raises) ==
    LET call == drop_tip_select(pipette, location)
        succeeded == call.method # "TypeError" /\ ~core_raises
    IN  /\ pc = "idle"
        /\ cmd' = [command |-> command, location |-> location,
                   presses |-> "None", increment |-> "None",
                   is_tip_tracking_available |-> FALSE, before |-> pipette]
        /\ steps' = IF call.method # "TypeError" THEN <<call>> ELSE <<>>
        /\ result' = IF call.method = "TypeError"
                     THEN ApiResult(Error("TypeError", "location"), 0)
                     ELSE IF core_raises
                     THEN ApiResult(Error("CoreRaised", call.method), call.well)
                     ELSE ApiResult(NoError, call.well)
        /\ pipette' = IF succeeded
                      THEN [pipette EXCEPT !.last_tip_picked_up_from = 0]
                      ELSE pipette
        /\ tracker' = IF succeeded THEN Apply(tracker, DropTip_state_update)
                      ELSE tracker
        /\ UNCHANGED <<hw, robot, pc, pre>>

\* return_tip that drops the tip into the trash
Mutant_ContextReturnTip(core_raises) ==
    ContextDropTip("InstrumentContext.return_tip", Location("None", 0), core_raises)

\* InstrumentContext.return_tip()
ContextReturnTip(core_raises) ==
    LET loc == pipette.last_tip_picked_up_from
    IN  IF loc = 0
        THEN /\ pc = "idle"
             /\ cmd' = [command |-> "InstrumentContext.return_tip",
                        location |-> Location("None", 0),
                        presses |-> "None", increment |-> "None",
                        is_tip_tracking_available |-> FALSE, before |-> pipette]
             /\ steps' = <<>>
             /\ result' = ApiResult(Error("TypeError",
                              "Last tip location should be a Well but it is: None"), 0)
             /\ UNCHANGED <<tracker, hw, pipette, robot, pc, pre>>
        ELSE ContextDropTip("InstrumentContext.return_tip", Location("Well", loc),
                            core_raises)

ContextNext ==
    \/ /\ cmd = NoCommand
       /\ \E location \in 0..RackWells : SetStartingTip(location)
    \/ /\ cmd = NoCommand
       /\ \E location \in Locations, presses \in {"None", "1"},
             increment \in {"None", "1"}, prep_after \in {"None", "True"},
             is_tip_tracking_available \in BOOLEAN, core_raises \in BOOLEAN :
                ContextPickUpTip(location, presses, increment, prep_after,
                                 is_tip_tracking_available, core_raises)
    \/ /\ cmd = NoCommand
       /\ \E location \in Locations, core_raises \in BOOLEAN :
                ContextDropTip("InstrumentContext.drop_tip", location, core_raises)
    \/ /\ cmd = NoCommand
       /\ \E core_raises \in BOOLEAN : ContextReturnTip(core_raises)
    \/ CallReturned

ContextSpec == ContextInit /\ [][ContextNext]_vars

(***************************************************************************)
(* Properties of InstrumentContext.pick_up_tip, drop_tip and return_tip.   *)
(***************************************************************************)
\* C27 as stated: pick_up_tip with no location raises
\* CommandPreconditionViolated whenever the nozzle configuration is not FULL
\* and starting_tip is set, before a tip is selected or a pickup is issued
C27_PartialWithStartingTipRaises ==
    (/\ cmd # NoCommand
     /\ cmd.command = "InstrumentContext.pick_up_tip"
     /\ cmd.location.kind = "None"
     /\ cmd.before.nozzle_map.configuration # "FULL"
     /\ cmd.before.starting_tip # 0)
    => /\ result.error.type = "CommandPreconditionViolated"
       /\ result.well = 0
       /\ steps = <<>>

\* C27: on API version 2.18 or later, pick_up_tip with no location fails
\* before a tip is selected or a pickup is issued to the core whenever the
\* nozzle configuration is not FULL and starting_tip is set: with
\* CommandPreconditionViolated, or with UnsupportedAPIError when presses or
\* increment is given; below API version 2.18 the nozzle map is not read,
\* and the call raises CommandPreconditionViolated only when the core
\* reports that tip tracking is not available
C27_PartialWithStartingTipFails ==
    (/\ cmd # NoCommand
     /\ cmd.command = "InstrumentContext.pick_up_tip"
     /\ cmd.location.kind = "None"
     /\ cmd.before.nozzle_map.configuration # "FULL"
     /\ cmd.before.starting_tip # 0)
    => IF cmd.before.api_version >= _PARTIAL_NOZZLE_CONFIGURATION_AUTOMATIC_TIP_TRACKING_IN
       THEN /\ result.error.type =
                 IF cmd.presses = "None" /\ cmd.increment = "None"
                 THEN "CommandPreconditionViolated" ELSE "UnsupportedAPIError"
            /\ result.well = 0
            /\ steps = <<>>
            /\ pipette = cmd.before
       ELSE result.error.type = "CommandPreconditionViolated"
               <=> /\ ~cmd.is_tip_tracking_available
                   /\ cmd.presses = "None"
                   /\ cmd.increment = "None"

\* API 2.18, COLUMN layout, starting_tip set, tip tracking available: the
\* call raises the starting_tip precondition
C27_Witness ==
    /\ cmd # NoCommand
    /\ cmd.command = "InstrumentContext.pick_up_tip"
    /\ cmd.location.kind = "None"
    /\ cmd.before.nozzle_map.configuration = "COLUMN"
    /\ cmd.before.starting_tip = 1
    /\ cmd.before.api_version = 18
    /\ cmd.is_tip_tracking_available
    /\ result.error.type = "CommandPreconditionViolated"
    /\ steps = <<>>

\* C30: _last_tip_picked_up_from is the picked well after a pick_up_tip
\* whose core call succeeded and unchanged after one that raised; it is None
\* after every drop_tip that succeeded (trash, well, location, disposal
\* location); return_tip drops into exactly the well it held, and raises
\* TypeError without a drop when it held None
C30_LastTipTracked ==
    cmd # NoCommand =>
        /\ cmd.command = "InstrumentContext.pick_up_tip" =>
              pipette.last_tip_picked_up_from =
                  IF result.error = NoError THEN steps[1].well
                  ELSE cmd.before.last_tip_picked_up_from
        /\ cmd.command \in {"InstrumentContext.drop_tip", "InstrumentContext.return_tip"} =>
              pipette.last_tip_picked_up_from =
                  IF result.error = NoError THEN 0
                  ELSE cmd.before.last_tip_picked_up_from
        /\ cmd.command = "InstrumentContext.return_tip" =>
              IF cmd.before.last_tip_picked_up_from = 0
              THEN result.error.type = "TypeError" /\ steps = <<>>
              ELSE steps = <<[method |-> "drop_tip",
                              well |-> cmd.before.last_tip_picked_up_from,
                              alternate_drop_location |-> FALSE]>>

\* a tip picked from well 2 is returned: the drop goes into well 2 and the
\* last tip is forgotten
C30_Witness ==
    /\ cmd # NoCommand
    /\ cmd.command = "InstrumentContext.return_tip"
    /\ cmd.before.last_tip_picked_up_from = 2
    /\ result.error = NoError
    /\ steps[1].well = 2
    /\ pipette.last_tip_picked_up_from = 0
    /\ ~tracker.has_tip

(***************************************************************************)
(* FlexStacker.move_axis and home_axis: the run and hold current of an     *)
(* axis are sent to the driver when they differ from the ones recorded     *)
(* for the axis (test_set_run_hold_current).  hw holds the recorded motion *)
(* parameters of each axis, steps the driver calls of the last call.       *)
(***************************************************************************)
StackerAxis == {"X", "Z", "L"}

\* STACKER_MOTION_CONFIG[axis][action]: the default currents of an action
STACKER_MOTION_CONFIG(axis, action) ==
    LET base == CASE axis = "X" -> 10 [] axis = "Z" -> 20 [] OTHER -> 30
    IN  [run_current |-> IF action = "move" THEN base ELSE base + 5,
         hold_current |-> base - 5]

\* a driver call made by the stacker
DriverCall(method, axis, current) == [method |-> method, axis |-> axis, current |-> current]

\* a stacker that sends both currents before every motion
Mutant_set_currents(recorded, axis, required) ==
    <<DriverCall("set_run_current", axis, required.run_current),
      DriverCall("set_ihold_current", axis, required.hold_current)>>

\* the driver calls that bring the recorded currents of axis to required
set_currents(recorded, axis, required) ==
    (IF recorded.run_current # required.run_current
     THEN <<DriverCall("set_run_current", axis, required.run_current)>> ELSE <<>>)
    \o
    (IF recorded.hold_current # required.hold_current
     THEN <<DriverCall("set_ihold_current", axis, required.hold_current)>> ELSE <<>>)

StackerInit ==
    /\ tracker = InitialTracker
    /\ hw = [axis \in StackerAxis |-> [run_current |-> 0, hold_current |-> 0]]
    /\ pipette \in {p \in Pipettes : p.channels = 1}
    /\ robot = "OT-3 Standard"
    /\ pc = "idle"
    /\ cmd = NoCommand
    /\ steps = <<>>
    /\ result = NoResult
    /\ pre = [tracker |-> InitialTracker, hw |-> InitialHw]

\* FlexStacker.move_axis(axis, direction, distance) with the default current
MoveAxis(axis, direction) ==
    LET default == STACKER_MOTION_CONFIG(axis, "move")
    IN  /\ pc = "idle"
        /\ cmd' = [command |-> "move_axis", axis |-> axis, direction |-> direction,
                   required |-> default, before |-> hw]
        /\ steps' = set_currents(hw[axis], axis, default)
        /\ hw' = [hw EXCEPT ![axis] = default]
        /\ UNCHANGED <<tracker, pipette, robot, pc, result, pre>>

\* FlexStacker.home_axis(axis, direction) with the default current
HomeAxis(axis, direction) ==
    LET default == STACKER_MOTION_CONFIG(axis, "home")
    IN  /\ pc = "idle"
        /\ cmd' = [command |-> "home_axis", axis |-> axis, direction |-> direction,
                   required |-> default, before |-> hw]
        /\ steps' = set_currents(hw[axis], axis, default)
        /\ hw' = [hw EXCEPT ![axis] = default]
        /\ UNCHANGED <<tracker, pipette, robot, pc, result, pre>>

StackerNext ==
    \/ \E axis \in StackerAxis, direction \in {"EXTEND", "RETRACT"} :
            MoveAxis(axis, direction)
    \/ \E axis \in StackerAxis, direction \in {"EXTEND", "RETRACT"} :
            HomeAxis(axis, direction)

StackerSpec == StackerInit /\ [][StackerNext]_vars

\* C29: move_axis and home_axis send set_run_current / set_ihold_current to
\* the driver only when the required current differs from the one recorded
\* for the axis, and record the required currents; a second identical move
\* or home on the same axis issues no current-setting driver call and
\* leaves the recorded run and hold currents unchanged
C29_CurrentsSentOnChange ==
    cmd # NoCommand =>
        LET recorded == cmd.before[cmd.axis]
            sent(method) == \E i \in 1..Len(steps) : steps[i].method = method
        IN  /\ sent("set_run_current")
                 <=> recorded.run_current # cmd.required.run_current
            /\ sent("set_ihold_current")
                 <=> recorded.hold_current # cmd.required.hold_current
            /\ \A i \in 1..Len(steps) :
                 /\ steps[i].axis = cmd.axis
                 /\ steps[i].current =
                        IF steps[i].method = "set_run_current"
                        THEN cmd.required.run_current
                        ELSE cmd.required.hold_current
            /\ hw[cmd.axis] = cmd.required
            /\ \A axis \in StackerAxis \ {cmd.axis} : hw[axis] = cmd.before[axis]
            /\ recorded = cmd.required => (steps = <<>> /\ hw = cmd.before)

\* a second identical move_axis on X: no driver call, the recorded currents
\* stay those of the first
C29_Witness ==
    /\ cmd # NoCommand
    /\ cmd.command = "move_axis"
    /\ cmd.axis = "X"
    /\ cmd.before["X"] = STACKER_MOTION_CONFIG("X", "move")
    /\ steps = <<>>
    /\ hw = cmd.before

(***************************************************************************)
(* InstrumentContext.mix and the AutoProbeDisable block it runs its loop   *)
(* in.  The calls mix issues are recorded in steps; a Python None is       *)
(* "None", a number is its decimal string, the API version 2.n is n.       *)
(***************************************************************************)
MaxRepetitions == 3

\* the API versions a protocol may ask for
MixApiVersions == {15, 16, 20, 21, 24}

\* the values given for final_push_out and for aspirate_delay
OptionalFloats == {"None", "0", "2"}

\* Python's truth value of an Optional[float]
truthy(x) == x \notin {"None", "0"}

\* a call mix issued on the instrument
MixStep(call, push_out) == [call |-> call, push_out |-> push_out]

\* a mix that gives every dispense the final push out
Mutant_mix_push_out(api_version, repetitions, final_push_out) == final_push_out

\* the push_out of the next dispense: inside the while loop (repetitions - 1
\* > 0) it is 0 from API version 2.16 on and None before; after the loop it
\* is final_push_out, None when that is not given
mix_push_out(api_version, repetitions, final_push_out) ==
    IF repetitions - 1 > 0
    THEN IF api_version >= 16 THEN "0" ELSE "None"
    ELSE final_push_out

\* the checks of mix before it issues anything
mix_validate(has_tip, api_version, aspirate_delay, final_push_out) ==
    IF ~has_tip THEN Error("UnexpectedTipRemovalError", "mix")
    ELSE IF truthy(aspirate_delay) /\ api_version < 24
    THEN Error("APIVersionError", "aspirate_delay")
    ELSE IF truthy(final_push_out) /\ api_version < 24
    THEN Error("APIVersionError", "final_push_out")
    ELSE NoError

\* AutoProbeDisable.__enter__: the pipette it leaves
AutoProbeDisable_enter(p) ==
    IF p.api_version >= 21 THEN [p EXCEPT !.liquid_presence_detection = FALSE]
    ELSE p

\* an __exit__ that leaves the detection switched off
Mutant_AutoProbeDisable_exit(p, auto_presence) == p

\* AutoProbeDisable.__exit__: the pipette it leaves
AutoProbeDisable_exit(p, auto_presence) ==
    IF p.api_version >= 21
    THEN [p EXCEPT !.liquid_presence_detection = auto_presence[1]]
    ELSE p

MixInit ==
    /\ tracker \in {InitialTracker, TrackerWithTip}
    /\ hw = InitialHw
    /\ \E api_version \in MixApiVersions :
          pipette = [channels |-> 1, api_version |-> api_version,
                     liquid_presence_detection |-> FALSE]
    /\ robot = "OT-3 Standard"
    /\ pc = "idle"
    /\ cmd = NoCommand
    /\ steps = <<>>
    /\ result = NoResult
    /\ pre = [tracker |-> InitialTracker, hw |-> InitialHw]

\* the liquid_presence_detection setter (API version 2.20 on)
SetLiquidPresenceDetection(enable) ==
    /\ pc = "idle"
    /\ pipette.api_version >= 20
    /\ pipette.liquid_presence_detection # enable
    /\ pipette' = [pipette EXCEPT !.liquid_presence_detection = enable]
    /\ UNCHANGED <<tracker, hw, robot, pc, cmd, steps, result, pre>>

\* mix(repetitions, ..., aspirate_delay, final_push_out) up to its first
\* aspirate: it raises, or goes on to aspirate
MixBegin(repetitions, aspirate_delay, final_push_out) ==
    LET error == mix_validate(tracker.has_tip, pipette.api_version,
                              aspirate_delay, final_push_out)
    IN  /\ pc = "idle"
        /\ cmd' = [command |-> "mix", n |-> repetitions,
                   repetitions |-> repetitions,
                   aspirate_delay |-> aspirate_delay,
                   final_push_out |-> final_push_out,
                   auto_presence |-> <<>>, entered |-> FALSE,
                   before |-> pipette]
        /\ steps' = <<>>
        /\ result' = ApiResult(error, 0)
        /\ pc' = IF error = NoError THEN "aspirate" ELSE "idle"
        /\ UNCHANGED <<tracker, hw, pipette, robot, pre>>

\* aspirate_with_delay: self.aspirate and, when asked for, the delay; the
\* first one runs before the block, the others end a turn of the loop
MixAspirate(raises) ==
    /\ pc \in {"aspirate", "loop_aspirate"}
    /\ steps' = IF ~raises /\ truthy(cmd.aspirate_delay)
                THEN steps \o <<MixStep("aspirate", "None"), MixStep("delay", "None")>>
                ELSE Append(steps, MixStep("aspirate", "None"))
    /\ result' = IF raises THEN ApiResult(Error("CoreRaised", "aspirate"), 0)
                 ELSE result
    /\ pc' = IF pc = "aspirate"
             THEN IF raises THEN "idle" ELSE "__enter__"
             ELSE IF raises THEN "__exit__" ELSE "dispense"
    /\ cmd' = IF pc = "loop_aspirate" /\ ~raises
              THEN [cmd EXCEPT !.repetitions = cmd.repetitions - 1]
              ELSE cmd
    /\ UNCHANGED <<tracker, hw, pipette, robot, pre>>

\* with AutoProbeDisable(self): __enter__
MixEnterBlock ==
    /\ pc = "__enter__"
    /\ cmd' = [cmd EXCEPT
                 !.auto_presence = IF pipette.api_version >= 21
                                   THEN <<pipette.liquid_presence_detection>>
                                   ELSE <<>>,
                 !.entered = TRUE]
    /\ pipette' = AutoProbeDisable_enter(pipette)
    /\ pc' = "dispense"
    /\ UNCHANGED <<tracker, hw, robot, steps, result, pre>>

\* dispense_with_delay: in the loop, or the final one after it
MixDispense(raises) ==
    LET in_loop == cmd.repetitions - 1 > 0
    IN  /\ pc = "dispense"
        /\ steps' = Append(steps,
                       MixStep("dispense",
                               mix_push_out(pipette.api_version, cmd.repetitions,
                                            cmd.final_push_out)))
        /\ result' = IF raises THEN ApiResult(Error("CoreRaised", "dispense"), 0)
                     ELSE result
        /\ pc' = IF in_loop /\ ~raises THEN "loop_aspirate" ELSE "__exit__"
        /\ UNCHANGED <<tracker, hw, pipette, robot, cmd, pre>>

\* the block is left, by its end or by the exception raised inside it:
\* __exit__, then mix returns or the exception goes on
MixLeaveBlock ==
    /\ pc = "__exit__"
    /\ pipette' = AutoProbeDisable_exit(pipette, cmd.auto_presence)
    /\ cmd' = [cmd EXCEPT !.entered = FALSE]
    /\ pc' = "idle"
    /\ UNCHANGED <<tracker, hw, robot, steps, result, pre>>

MixNext ==
    \/ /\ cmd = NoCommand
       /\ \E enable \in BOOLEAN : SetLiquidPresenceDetection(enable)
    \/ /\ cmd = NoCommand
       /\ \E repetitions \in 0..MaxRepetitions, aspirate_delay \in OptionalFloats,
             final_push_out \in OptionalFloats :
                MixBegin(repetitions, aspirate_delay, final_push_out)
    \/ \E raises \in BOOLEAN : MixAspirate(raises)
    \/ MixEnterBlock
    \/ \E raises \in BOOLEAN : MixDispense(raises)
    \/ MixLeaveBlock
    \/ CallReturned

MixSpec == MixInit /\ [][MixNext]_vars

\* a call of mix, once made, runs on: nothing else is scheduled in between
MixFairSpec == MixSpec /\ WF_vars(MixNext)

(***************************************************************************)
(* labware_stackup.snapshots.compare: the test results against the         *)
(* snapshot.  A dict is a function on its keys; a SuccessfulTest carries   *)
(* the key of its stackup as spec; coordinates are whole numbers.          *)
(***************************************************************************)
MaxCoordinate == 1

StackupKeys == {"stackup_a", "stackup_b", "stackup_c"}

Coordinates == {<<x, 0, z>> : x \in {0, MaxCoordinate}, z \in {0, MaxCoordinate}}

SuccessfulTest(spec, coordinates) == [spec |-> spec, coordinates |-> coordinates]

\* the dicts of SuccessfulTest a snapshot file or a test run may give
SuccessfulTests ==
    UNION {[keys -> Coordinates] : keys \in SUBSET StackupKeys}

\* the orders in which a dict may hand out its keys
ItemOrders(dict) ==
    {order \in [1..Cardinality(DOMAIN dict) -> DOMAIN dict] :
        \A i, j \in DOMAIN order : order[i] = order[j] => i = j}

\* math.isclose on whole numbers
isclose(a, b) == a = b

CoordinateMismatch(spec, snapshotted, this_test) ==
    [spec |-> spec, snapshotted |-> snapshotted, this_test |-> this_test,
     diff |-> <<this_test[1] - snapshotted[1], this_test[2] - snapshotted[2],
                this_test[3] - snapshotted[3]>>]

\* find_coordinate_mismatches over the items of test_results in order:
\* <<actually_ok, coordinate_mismatches>>
RECURSIVE find_coordinate_mismatches(_, _, _)
find_coordinate_mismatches(snapshot_data, test_results, order) ==
    IF order = <<>> THEN <<[k \in {} |-> 0], [k \in {} |-> 0]>>
    ELSE LET earlier == find_coordinate_mismatches(snapshot_data, test_results,
                            SubSeq(order, 1, Len(order) - 1))
             stackup_key == order[Len(order)]
             current_coords == test_results[stackup_key]
             snapshot_coords == snapshot_data[stackup_key]
         IN  IF stackup_key \notin DOMAIN snapshot_data THEN earlier
             ELSE IF ~(/\ isclose(snapshot_coords[1], current_coords[1])
                       /\ isclose(snapshot_coords[2], current_coords[2])
                       /\ isclose(snapshot_coords[3], current_coords[3]))
             THEN <<earlier[1],
                    ("stackup_key" :> CoordinateMismatch(stackup_key,
                                          snapshot_coords, current_coords))
                        @@ earlier[2]>>
             ELSE <<(stackup_key :> SuccessfulTest(stackup_key, current_coords))
                        @@ earlier[1],
                    earlier[2]>>

find_untested_snapshots(snapshot_data, test_results) ==
    DOMAIN snapshot_data \ DOMAIN test_results

find_unsnapshotted_tests(snapshot_data, test_results) ==
    DOMAIN test_results \ DOMAIN snapshot_data

\* compare: SnapshotCompareResults
compare(snapshot_data, test_results, order) ==
    LET found == find_coordinate_mismatches(snapshot_data, test_results, order)
    IN  [passed |-> found[1], failed |-> found[2],
         not_in_snapshot |-> find_unsnapshotted_tests(snapshot_data, test_results),
         not_in_run |-> find_untested_snapshots(snapshot_data, test_results)]

SnapInit ==
    /\ tracker = InitialTracker
    /\ hw = InitialHw
    /\ pipette \in {p \in Pipettes : p.channels = 1}
    /\ robot = "OT-3 Standard"
    /\ pc = "idle"
    /\ cmd = NoCommand
    /\ steps = <<>>
    /\ result = NoResult
    /\ pre = [tracker |-> InitialTracker, hw |-> InitialHw]

\* snapshots.compare(snapshot_data, test_results) is called
Compare(snapshot_data, test_results, order) ==
    /\ pc = "idle"
    /\ cmd' = [command |-> "compare", snapshot_data |-> snapshot_data,
               test_results |-> test_results]
    /\ steps' = order
    /\ result' = compare(snapshot_data, test_results, order)
    /\ UNCHANGED <<tracker, hw, pipette, robot, pc, pre>>

SnapNext ==
    \/ /\ cmd = NoCommand
       /\ \E snapshot_data \in SuccessfulTests, test_results \in SuccessfulTests :
            \E order \in ItemOrders(test_results) :
                Compare(snapshot_data, test_results, order)
    \/ CallReturned

SnapSpec == SnapInit /\ [][SnapNext]_vars

(***************************************************************************)
(* Further properties of configuration, pickup and the tip handlers.       *)
(***************************************************************************)
\* C31: after a successful configure_nozzle_layout, tip_racks is the
\* tip_racks argument, or the empty list when it is not given; when the call
\* fails validation or the core rejects the layout, tip_racks is unchanged
C31_TipRacksReplaced ==
    cmd.command = "configure_nozzle_layout" =>
        pipette.tip_racks = IF result.error = NoError THEN cmd.tip_racks
                            ELSE cmd.before.tip_racks

\* a pipette with a tip rack linked is configured again without tip racks:
\* the call succeeds and the tip racks are reset
C31_Witness ==
    /\ cmd.command = "configure_nozzle_layout"
    /\ cmd.before.tip_racks = <<"tiprack">>
    /\ cmd.tip_racks = <<>>
    /\ result.error = NoError
    /\ pipette.tip_racks = <<>>

\* C33: whenever HardwareTipHandler.pick_up_tip ends by raising (presence
\* mismatch, motion failure, failure while preparing for aspirate), the
\* hardware API's cached tip state is the same as before the call
C33_RaiseLeavesCacheAlone ==
    (cmd.command = "pickUpTip" /\ result.kind \in {"raised", "defined_error"}) =>
        hw = pre.hw

\* C34: get_tip_presence_config returns a follow_singular_sensor other than
\* None only for a 96-channel pipette whose configuration is not FULL and for
\* which sensing is supported; and when such a configuration touches neither
\* column 1 nor column 12, the SECONDARY sensor is selected
C34_FollowSingularSensor ==
    ConfigCalled =>
        LET supported == result.value[1]
            follow_singular_sensor == result.value[2]
            partial_96 == /\ pipette.channels = 96
                          /\ pipette.nozzle_map.configuration # "FULL"
                          /\ supported
        IN  /\ follow_singular_sensor # "None" => partial_96
            /\ pipette.channels \in {1, 8} => follow_singular_sensor = "None"
            /\ pipette.nozzle_map.configuration = "FULL" =>
                    follow_singular_sensor = "None"
            /\ ~supported => follow_singular_sensor = "None"
            /\ (/\ partial_96
                /\ NozzleColumn[pipette.nozzle_map.back_left] # 1
                /\ NozzleColumn[pipette.nozzle_map.front_right] # 12)
               => follow_singular_sensor = "SECONDARY"

\* a 96-channel pipette configured to column 3 alone: sensing is supported
\* and the SECONDARY sensor is followed
C34_Witness ==
    /\ ConfigCalled
    /\ pipette.channels = 96
    /\ pipette.nozzle_map.configuration = "COLUMN"
    /\ NozzleColumn[pipette.nozzle_map.back_left] = 3
    /\ NozzleColumn[pipette.nozzle_map.front_right] = 3
    /\ result.value = <<TRUE, "SECONDARY">>

\* C36: on the failed-verification path both deltas contain the move's
\* position update, the genuine delta has no tip-geometry and no fluid-empty
\* update, the false-positive delta has no fluid-unknown update, and the
\* move result's own state update is left as the move built it
C36_DeltasIndependent ==
    PickUpFailedVerification =>
        /\ cmd.move_state_update.pipette_location.changed
        /\ result.state_update.pipette_location =
                cmd.move_state_update.pipette_location
        /\ result.state_update_if_false_positive.pipette_location =
                cmd.move_state_update.pipette_location
        /\ ~result.state_update.pipette_tip_state.changed
        /\ result.state_update.pipette_aspirated_fluid.type = "unknown"
        /\ result.state_update_if_false_positive.pipette_tip_state.changed
        /\ result.state_update_if_false_positive.pipette_aspirated_fluid.type = "empty"
        /\ cmd.move_state_update = MoveSuccess_state_update(cmd.well_name)

\* a pickup whose presence check failed right after the move to well 2: the
\* error carries both deltas and the recovery has not yet committed one
C36_Witness ==
    /\ PickUpFailedVerification
    /\ pc = "recovery"
    /\ cmd.well_name = 2
    /\ cmd.move_state_update.pipette_location = [changed |-> TRUE, well |-> 2]
    /\ result.state_update # result.state_update_if_false_positive

\* C35: the hardware tip handler rejects every pick_up_tip that the virtual
\* tip handler rejects on the same tracked tip state: with a tip tracked as
\* attached, pick_up_tip raises on both
C35_HandlersRejectAlike ==
    (PickUpTipCalled /\ VirtualTipHandler_pick_up_tip(tracker).kind = "raised") =>
        result.kind = "raised"

\* the last call was mix
MixCalled == cmd # NoCommand /\ cmd.command = "mix"

\* the aspirates and dispenses mix has issued so far, in order
MixCalls == SelectSeq(steps, LAMBDA s : s.call \in {"aspirate", "dispense"})

\* what holds of the calls of a mix at every moment, and of a mix that is over
C32_MixCalls ==
    MixCalled =>
        /\ \A i \in 1..Len(MixCalls) :
              MixCalls[i].call = IF i % 2 = 1 THEN "aspirate" ELSE "dispense"
        /\ (pc = "idle" /\ result.error = NoError /\ cmd.n >= 1) =>
              /\ tracker.has_tip
              /\ Len(MixCalls) = 2 * cmd.n
              /\ MixCalls[2 * cmd.n].push_out = cmd.final_push_out
              /\ cmd.before.api_version >= 16 =>
                    \A i \in 1..(cmd.n - 1) : MixCalls[2 * i].push_out = "0"
        /\ ~tracker.has_tip =>
              /\ pc = "idle"
              /\ result.error = Error("UnexpectedTipRemovalError", "mix")
              /\ steps = <<>>

\* C32: a mix with repetitions = n >= 1 and a tip attached comes to an end,
\* and when it returns it has issued exactly n aspirates and n dispenses,
\* alternating and starting with an aspirate; from API version 2.16 on every
\* dispense but the last has push_out = 0 and the last has final_push_out
\* (None for the default); with no tip attached it raises
\* UnexpectedTipRemovalError before any aspirate
C32_MixAlternates ==
    /\ []C32_MixCalls
    /\ (MixCalled /\ pc # "idle") ~> (pc = "idle")

\* a mix of 3 repetitions on API version 2.24 with final_push_out = 2 has
\* returned after 3 aspirates and 3 dispenses
C32_Witness ==
    /\ MixCalled
    /\ pc = "idle"
    /\ result.error = NoError
    /\ cmd.n = 3
    /\ cmd.before.api_version = 24
    /\ cmd.final_push_out = "2"
    /\ Len(MixCalls) = 6
    /\ MixCalls[4].push_out = "0"
    /\ MixCalls[6].push_out = "2"

\* C37: on API version 2.21 or later, inside the AutoProbeDisable block of
\* mix liquid_presence_detection is False, and once the block is left, by
\* its end or by an exception raised inside it, the setting is what it was
\* just before the block was entered
C37_AutoProbeRestored ==
    (MixCalled /\ cmd.before.api_version >= 21) =>
        /\ cmd.entered => ~pipette.liquid_presence_detection
        /\ ~cmd.entered =>
              pipette.liquid_presence_detection =
                  cmd.before.liquid_presence_detection

\* on API version 2.21 with the detection switched on, a dispense inside the
\* block raised: the block is left and the detection is on again
C37_Witness ==
    /\ MixCalled
    /\ cmd.before.api_version = 21
    /\ cmd.before.liquid_presence_detection
    /\ cmd.auto_presence = <<TRUE>>
    /\ ~cmd.entered
    /\ pc = "idle"
    /\ result.error = Error("CoreRaised", "dispense")
    /\ pipette.liquid_presence_detection

\* the stackups of the last compare whose coordinates differ from the snapshot
C38_Differing ==
    {k \in DOMAIN cmd.snapshot_data \cap DOMAIN cmd.test_results :
        cmd.snapshot_data[k] # cmd.test_results[k]}

\* C38: compare puts every stackup key that is both in the snapshot and in
\* the results into exactly one of passed and failed, under its own key, so
\* failed has as many entries as there are stackups whose coordinates differ;
\* keys only in the results are in not_in_snapshot, keys only in the
\* snapshot in not_in_run
C38_ComparePartitions ==
    (cmd # NoCommand /\ cmd.command = "compare") =>
        /\ \A k \in DOMAIN cmd.snapshot_data \cap DOMAIN cmd.test_results :
              (k \in DOMAIN result.passed) # (k \in DOMAIN result.failed)
        /\ Cardinality(DOMAIN result.failed) = Cardinality(C38_Differing)
        /\ result.not_in_snapshot = DOMAIN cmd.test_results \ DOMAIN cmd.snapshot_data
        /\ result.not_in_run = DOMAIN cmd.snapshot_data \ DOMAIN cmd.test_results

====
